---------------------------- MODULE Spec2Model ----------------------------
(***************************************************************************)
(* AuraMonster: the behaviour state machine (AMonsterAIController), the    *)
(* character it drives (AMonsterCharacter) and the surface locomotion      *)
(* component (USurfacePathfindingComponent).                                *)
(*                                                                         *)
(* Numbers.  Floats are modelled by integers.  Time is counted in whole    *)
(* seconds, lengths in LengthUnit Unreal units.  Directions are integer    *)
(* vectors; surface normals are the six axis unit vectors.  A random       *)
(* float FMath::FRand() is the rational k / RandDen, and a probability     *)
(* setting is the rational c / ChanceDen.                                  *)
(***************************************************************************)
EXTENDS Integers, Sequences, FiniteSets, TLC

(***************************************************************************)
(* Bounds of the model.                                                    *)
(***************************************************************************)
MaxDeltaTime == 2       \* a frame lasts 1..MaxDeltaTime seconds
RandDen == 2            \* FRand() takes the values 0/RandDen .. RandDen/RandDen
ChanceDen == 2          \* probability settings are 0/ChanceDen .. ChanceDen/ChanceDen
MaxDuration == 2        \* configured durations are 1..MaxDuration seconds
MaxRangeArg == 5        \* arguments of GetValidatedRandomRange are 0..MaxRangeArg

DeltaTimes == 1..MaxDeltaTime
Rolls == 0..RandDen
Chances == 0..ChanceDen
Durations == 1..MaxDuration

(***************************************************************************)
(* Vectors (FVector) as triples of integers.                               *)
(***************************************************************************)
ZeroVector == <<0, 0, 0>>
UpVector == <<0, 0, 1>>
DownVector == <<0, 0, -1>>
ForwardVector == <<1, 0, 0>>

VAdd(a, b) == <<a[1] + b[1], a[2] + b[2], a[3] + b[3]>>
VSub(a, b) == <<a[1] - b[1], a[2] - b[2], a[3] - b[3]>>
VScale(a, k) == <<a[1] * k, a[2] * k, a[3] * k>>
Dot(a, b) == a[1] * b[1] + a[2] * b[2] + a[3] * b[3]
Cross(a, b) == <<a[2] * b[3] - a[3] * b[2], a[3] * b[1] - a[1] * b[3], a[1] * b[2] - a[2] * b[1]>>
SizeSquared(a) == Dot(a, a)

Abs(x) == IF x < 0 THEN -x ELSE x
MinOf(a, b) == IF a < b THEN a ELSE b
MaxOf(a, b) == IF a > b THEN a ELSE b
\* Division rounding towards zero, as a float result cut to the model's grid.
TruncDiv(a, b) == IF a >= 0 THEN a \div b ELSE -((-a) \div b)
\* The integer part of the square root, by bisection.
RECURSIVE ISqrtBetween(_, _, _)
ISqrtBetween(n, lo, hi) ==
    IF lo >= hi THEN lo
    ELSE LET mid == (lo + hi + 1) \div 2
         IN  IF mid * mid <= n THEN ISqrtBetween(n, mid, hi) ELSE ISqrtBetween(n, lo, mid - 1)
\* (46340 is the largest root whose square fits the checker's integers)
ISqrt(n) == ISqrtBetween(n, 0, MinOf(n, 46340))
\* FVector::Size(), cut to the grid (exact for a vector along an axis).
Size(a) == ISqrt(SizeSquared(a))
\* The vector of length len along a (GetSafeNormal() * len); zero for the zero vector.
ScaleTo(a, len) ==
    IF SizeSquared(a) = 0 THEN ZeroVector
    ELSE LET s == Size(a)
         IN  <<TruncDiv(a[1] * len, s), TruncDiv(a[2] * len, s), TruncDiv(a[3] * len, s)>>
Sign(x) == IF x > 0 THEN 1 ELSE IF x < 0 THEN -1 ELSE 0

(***************************************************************************)
(* Random numbers.  FMath::FRand() is Rand() / RAND_MAX: every value from  *)
(* 0 to 1, both ends included.  FMath::RandRange(Min, Max) is              *)
(* Min + (Max - Min) * FRand().                                            *)
(***************************************************************************)
RandRange(Min, Max, roll) == Min + TruncDiv((Max - Min) * roll, RandDen)

GetValidatedRandomRange_FromZero(MinValue, MaxValue, roll) ==
    RandRange(0, MaxOf(MinValue, MaxValue), roll)

GetValidatedRandomRange(MinValue, MaxValue, roll) ==
    LET ValidMin == MinOf(MinValue, MaxValue)
        ValidMax == MaxOf(MinValue, MaxValue)
    IN  RandRange(ValidMin, ValidMax, roll)

\* FMath::FRand() < Chance, for the roll k/RandDen and the setting c/ChanceDen.
RollBelow(roll, chance) == roll * ChanceDen < chance * RandDen


(***************************************************************************)
(* State.                                                                  *)
(***************************************************************************)
VARIABLES
    world,        \* the ray query service: what a line trace from any point reports
    controller,   \* the fields of AMonsterAIController
    character,    \* the fields of AMonsterCharacter
    actor,        \* the transform of the controlled body (location, rotation)
    nav,          \* the path following component of the navigation collaborator
    surface,      \* the fields of USurfacePathfindingComponent
    calls,        \* the callbacks invoked by the last operation, in order
    op            \* the last operation and its arguments and return value

vars == <<world, controller, character, actor, nav, surface, calls, op>>

States == {"Idle", "PatrolStanding", "PatrolCrawling"}
None == "-"
Unused == <<>>

(***************************************************************************)
(* The ray query service, GetWorld()->LineTraceSingleByChannel.  The world *)
(* answers by the direction of the ray: for a direction (the signs of its  *)
(* components) it holds the distance from the start of the ray to the      *)
(* nearest blocking surface and the normal of that surface; the ray hits   *)
(* when it is at least that long.  Directions the world does not list      *)
(* never hit.                                                              *)
(***************************************************************************)
NoHit == [bBlockingHit |-> FALSE, Location |-> ZeroVector, Normal |-> ZeroVector]
DirKey(d) == <<Sign(d[1]), Sign(d[2]), Sign(d[3])>>

\* A surface of limited extent (a ledge) carries its Reach: it is met only by rays that start
\* within Reach of the origin, measured along x and along y.
Covers(k, Start) ==
    \/ "Reach" \notin DOMAIN world[k]
    \/ (Abs(Start[1]) <= world[k].Reach /\ Abs(Start[2]) <= world[k].Reach)

\* A world may also answer every ray alike: an entry with the field Below reports a hit that far
\* straight below the point the ray starts from, whatever the length of the ray.
AnswersBelow(k) == k \in DOMAIN world /\ "Below" \in DOMAIN world[k]

LineTraceSingleByChannel(Start, End) ==
    LET d == VSub(End, Start)
        k == DirKey(d)
    IN  IF AnswersBelow(k)
        THEN [bBlockingHit |-> TRUE,
              Location |-> VSub(Start, <<0, 0, world[k].Below>>),
              Normal |-> world[k].Normal]
        ELSE IF k \in DOMAIN world /\ world[k].Distance <= Size(d) /\ Covers(k, Start)
        THEN [bBlockingHit |-> TRUE,
              Location |-> VAdd(Start, ScaleTo(d, world[k].Distance)),
              Normal |-> world[k].Normal]
        ELSE NoHit

AxisNormals == {<<0, 0, 1>>, <<0, 0, -1>>, <<1, 0, 0>>, <<-1, 0, 0>>, <<0, 1, 0>>, <<0, -1, 0>>}

(***************************************************************************)
(* AMonsterCharacter (Source/AuraMonster/Private/MonsterCharacter.cpp).    *)
(* Lengths are in units of 5 Unreal units.                                 *)
(***************************************************************************)
PatrolStandingSpeed == 60    \* 300.0f
PatrolCrawlingSpeed == 30    \* 150.0f

GetMovementSpeedForState(State) ==
    CASE State = "Idle" -> 0
      [] State = "PatrolStanding" -> PatrolStandingSpeed
      [] State = "PatrolCrawling" -> PatrolCrawlingSpeed
      [] OTHER -> 0

\* A callback entered in the log, with the state the controller reports at the call.
Called(w, f, old, new) ==
    [w EXCEPT !.log = Append(@, [f |-> f, old |-> old, new |-> new, at |-> w.c.CurrentState, v |-> 0])]
\* A random draw entered in the log, with its value.
Drew(w, f, roll) ==
    [w EXCEPT !.log = Append(@, [f |-> f, old |-> None, new |-> None, at |-> w.c.CurrentState, v |-> roll])]

\* A SetBehaviorStateInternal that leaves the walk speed as it finds it.
SetBehaviorStateInternal_KeepSpeed(w, NewState) ==
    IF w.m.CurrentBehaviorState # NewState
    THEN Called([w EXCEPT !.m.CurrentBehaviorState = NewState],
                "OnBehaviorStateChanged", w.m.CurrentBehaviorState, NewState)
    ELSE w

\* A SetBehaviorStateInternal without the test of the character's state.
SetBehaviorStateInternal_Unguarded(w, NewState) ==
    LET OldState == w.m.CurrentBehaviorState
        w1 == [w EXCEPT !.m.CurrentBehaviorState = NewState,
                        !.m.MaxWalkSpeed = GetMovementSpeedForState(NewState)]
    IN  Called(w1, "OnBehaviorStateChanged", OldState, NewState)

SetBehaviorStateInternal(w, NewState) ==
    IF w.m.CurrentBehaviorState # NewState
    THEN LET OldState == w.m.CurrentBehaviorState
             w1 == [w EXCEPT !.m.CurrentBehaviorState = NewState,
                             !.m.MaxWalkSpeed = GetMovementSpeedForState(NewState)]
         IN  Called(w1, "OnBehaviorStateChanged", OldState, NewState)
    ELSE w


(***************************************************************************)
(* AMonsterAIController (Source/AuraMonster/Private/MonsterAIController.cpp)*)
(***************************************************************************)
\* The constructor's defaults that the code reads as numbers.
DefaultMinIdleDuration == 5          \* MinIdleDuration = 5.0f
DefaultMaxIdleDuration == 15         \* MaxIdleDuration = 15.0f
DefaultBreathingCycleDuration == 4   \* the value OnEnterState puts in place of one <= 0
PatrolRange == 200                   \* 1000.0f
MinCrawlDistance == 60               \* PatrolRange * MinCrawlDistanceMultiplier (0.3f)
PatrolAcceptanceRadius == 20         \* 100.0f
CrawlSurfaceDetectionDistance == 400 \* 2000.0f
CrawlSurfaceOffset == 10             \* 50.0f
FallbackTraceUpDistance == 20        \* 100.0f
FallbackTraceDownDistance == 100     \* 500.0f
SurfaceAlignmentSpeed == 5           \* 5.0f
MaxAttempts == 8                     \* const int32 MaxAttempts = 8
\* The settings the model runs with (editable properties of the controller).
MinSubtleMovementInterval == 2
MaxSubtleMovementInterval == 2
BreathingCycleDuration == 1
MinStopDuration == 2
MaxStopDuration == 2

\* A callback of the controller with an empty implementation.
OnExitState(w, OldState) == Called(w, "OnExitState", OldState, None)

\* An entry into PatrolCrawling that leaves the surface normals as it finds them.
EnterCrawling_KeepNormals(w) ==
    [w EXCEPT !.c.CurrentCrawlStopTime = 0,
              !.c.TargetCrawlStopDuration = 0,
              !.c.bIsStoppedAtCrawlDestination = FALSE,
              !.c.bIsMovingToCrawlDestination = FALSE,
              !.c.bIsTransitioningBetweenSurfaces = FALSE]

\* OnEnterState, for PatrolCrawling: the probe for the floor under the body.
EnterCrawling(w) ==
    LET w1 == [w EXCEPT !.c.CurrentCrawlStopTime = 0,
                        !.c.TargetCrawlStopDuration = 0,
                        !.c.bIsStoppedAtCrawlDestination = FALSE,
                        !.c.bIsMovingToCrawlDestination = FALSE,
                        !.c.bIsTransitioningBetweenSurfaces = FALSE]
        Location == w.a.Location
        Hit == LineTraceSingleByChannel(VAdd(Location, <<0, 0, FallbackTraceUpDistance>>),
                                        VSub(Location, <<0, 0, FallbackTraceDownDistance>>))
    IN  IF ~w.c.ControlledMonster THEN w1
        ELSE IF Hit.bBlockingHit
        THEN [w1 EXCEPT !.c.CurrentSurfaceNormal = Hit.Normal, !.c.TargetSurfaceNormal = Hit.Normal]
        ELSE [w1 EXCEPT !.c.CurrentSurfaceNormal = UpVector, !.c.TargetSurfaceNormal = UpVector]

\* An OnEnterState that leaves the idle time as it finds it.
OnEnterState_StaleIdleTime(w, NewState) ==
    LET e == Called(w, "OnEnterState", None, NewState)
    IN  IF NewState = "Idle"
        THEN { [e EXCEPT !.c.TargetIdleDuration =
                             GetValidatedRandomRange(e.c.MinIdleDuration, e.c.MaxIdleDuration, r1),
                         !.c.TimeSinceLastSubtleMovement = 0,
                         !.c.BreathingCycleTime = 0]
               : r1 \in Rolls }
        ELSE LET p == [e EXCEPT !.c.CurrentStopTime = 0,
                                !.c.TargetStopDuration = 0,
                                !.c.bIsStoppedAtDestination = FALSE]
             IN  IF NewState = "PatrolCrawling" THEN {EnterCrawling(p)} ELSE {p}

\* OnEnterState_Implementation: the outcomes, one for each pair of random draws.
OnEnterState(w, NewState) ==
    LET e == Called(w, "OnEnterState", None, NewState)
    IN  IF NewState = "Idle"
        THEN { [e EXCEPT !.c.BreathingCycleDuration =
                             IF @ <= 0 THEN DefaultBreathingCycleDuration ELSE @,
                         !.c.CurrentIdleTime = 0,
                         !.c.TargetIdleDuration =
                             GetValidatedRandomRange(e.c.MinIdleDuration, e.c.MaxIdleDuration, r1),
                         !.c.TimeSinceLastSubtleMovement = 0,
                         !.c.NextSubtleMovementTime =
                             GetValidatedRandomRange(MinSubtleMovementInterval, MaxSubtleMovementInterval, r2),
                         !.c.BreathingCycleTime = 0]
               : r1 \in Rolls, r2 \in Rolls }
        ELSE LET p == [e EXCEPT !.c.CurrentStopTime = 0,
                                !.c.TargetStopDuration = 0,
                                !.c.bIsStoppedAtDestination = FALSE]
             IN  IF NewState = "PatrolCrawling" THEN {EnterCrawling(p)} ELSE {p}

TransitionToState_EnterFirst(w, NewState) ==
    IF w.c.CurrentState # NewState
    THEN LET w2 == [w EXCEPT !.c.CurrentState = NewState]
             w3 == IF w2.c.ControlledMonster THEN SetBehaviorStateInternal(w2, NewState) ELSE w2
         IN  { OnExitState(x, w.c.CurrentState) : x \in OnEnterState(w3, NewState) }
    ELSE {w}

\* A TransitionToState without the test of the current state.
TransitionToState_Unguarded(w, NewState) ==
    LET w1 == OnExitState(w, w.c.CurrentState)
        w2 == [w1 EXCEPT !.c.CurrentState = NewState]
        w3 == IF w2.c.ControlledMonster THEN SetBehaviorStateInternal(w2, NewState) ELSE w2
    IN  OnEnterState(w3, NewState)

\* A TransitionToState that PatrolCrawling is never left by.
TransitionToState_CrawlingForGood(w, NewState) ==
    IF w.c.CurrentState # NewState /\ w.c.CurrentState # "PatrolCrawling"
    THEN LET w1 == OnExitState(w, w.c.CurrentState)
             w2 == [w1 EXCEPT !.c.CurrentState = NewState]
             w3 == IF w2.c.ControlledMonster THEN SetBehaviorStateInternal(w2, NewState) ELSE w2
         IN  OnEnterState(w3, NewState)
    ELSE {w}

TransitionToState(w, NewState) ==
    IF w.c.CurrentState # NewState
    THEN LET w1 == OnExitState(w, w.c.CurrentState)
             w2 == [w1 EXCEPT !.c.CurrentState = NewState]
             w3 == IF w2.c.ControlledMonster THEN SetBehaviorStateInternal(w2, NewState) ELSE w2
         IN  OnEnterState(w3, NewState)
    ELSE {w}

\* CurrentIdleTime >= TargetIdleDuration
IdleDurationReached_Always(CurrentIdleTime, TargetIdleDuration) == TRUE
IdleDurationReached(CurrentIdleTime, TargetIdleDuration) == CurrentIdleTime >= TargetIdleDuration

\* (FMath::FRand() < 0.5f) ? PatrolStanding : PatrolCrawling
PatrolStateFor(roll) == IF 2 * roll < RandDen THEN "PatrolStanding" ELSE "PatrolCrawling"

\* The end of ExecuteIdleBehavior: "Check if should transition to patrol".
StayIdle_KeepTimer(w, roll) ==
    LET Drawn == GetValidatedRandomRange(w.c.MinIdleDuration, w.c.MaxIdleDuration, roll)
    IN  [Drew(w, "GetValidatedRandomRange", Drawn) EXCEPT !.c.TargetIdleDuration = Drawn]
StayIdle(w, roll) ==
    LET Drawn == GetValidatedRandomRange(w.c.MinIdleDuration, w.c.MaxIdleDuration, roll)
    IN  [Drew(w, "GetValidatedRandomRange", Drawn) EXCEPT !.c.CurrentIdleTime = 0,
                                                          !.c.TargetIdleDuration = Drawn]

CheckPatrolTransition(w) ==
    IF IdleDurationReached(w.c.CurrentIdleTime, w.c.TargetIdleDuration)
    THEN UNION { LET d == Drew(w, "FRand", RandomValue)
                 IN  IF RollBelow(RandomValue, w.c.PatrolTransitionChance)
                     THEN UNION { TransitionToState(d, PatrolStateFor(r)) : r \in Rolls }
                     ELSE { StayIdle(d, r) : r \in Rolls }
                 : RandomValue \in Rolls }
    ELSE {w}

\* ExecuteIdleBehavior up to "Check if should transition to patrol": the timers and the callbacks.
IdleTimers(w, DeltaTime) ==
    LET w1 == [w EXCEPT !.c.CurrentIdleTime = @ + DeltaTime]
        w2 == IF w1.c.BreathingCycleDuration > 0
              THEN Called([w1 EXCEPT !.c.BreathingCycleTime =
                                         (@ + DeltaTime) % w1.c.BreathingCycleDuration],
                          "OnBreathingUpdate", None, None)
              ELSE w1
        w3 == [w2 EXCEPT !.c.TimeSinceLastSubtleMovement = @ + DeltaTime]
        moved == IF w3.c.TimeSinceLastSubtleMovement >= w3.c.NextSubtleMovementTime
                 THEN { [Called(w3, IF 2 * RandomValue < RandDen THEN "OnNeckTwitch" ELSE "OnFingerShift",
                                None, None)
                            EXCEPT !.c.TimeSinceLastSubtleMovement = 0,
                                   !.c.NextSubtleMovementTime =
                                       GetValidatedRandomRange(MinSubtleMovementInterval,
                                                               MaxSubtleMovementInterval, r)]
                        : RandomValue \in Rolls, r \in Rolls }
                 ELSE {w3}
    IN  moved

\* An idle tick without the test of the controlled monster.
ExecuteIdleBehavior_Unchecked(w, DeltaTime) ==
    UNION { CheckPatrolTransition(x) : x \in IdleTimers(w, DeltaTime) }

ExecuteIdleBehavior(w, DeltaTime) ==
    IF ~w.c.ControlledMonster THEN {w}
    ELSE UNION { CheckPatrolTransition(x) : x \in IdleTimers(w, DeltaTime) }


\* AAIController::StopMovement and MoveToLocation, as far as the path following status shows them.
StopMovement(w) == [w EXCEPT !.n.Status = "Idle"]
MoveToLocation(w, bAccepted) == [w EXCEPT !.n.Status = IF bAccepted THEN "Moving" ELSE "Idle"]

\* "Need to select a new random patrol destination": the two queries of the navigation system.
SelectPatrolDestination(w) ==
    IF ~w.c.CachedNavSystem THEN {w}
    ELSE LET q == Called(w, "GetRandomReachablePointInRadius", None, None)
         IN  UNION { IF bFoundLocation
                     THEN { MoveToLocation(q, bAccepted) : bAccepted \in BOOLEAN }
                     ELSE UNION { IF bFoundCloserLocation
                                  THEN { MoveToLocation(q, bAccepted) : bAccepted \in BOOLEAN }
                                  ELSE {q}
                                  : bFoundCloserLocation \in BOOLEAN }
                     : bFoundLocation \in BOOLEAN }

\* A pause that leaves the move running.
StopToLook_KeepMoving(w, roll) ==
    [w EXCEPT !.c.bIsStoppedAtDestination = TRUE,
              !.c.CurrentStopTime = 0,
              !.c.TargetStopDuration = GetValidatedRandomRange(MinStopDuration, MaxStopDuration, roll)]
\* "We've reached destination, now stop to listen/look around".
StopToLook(w, roll) ==
    StopMovement([w EXCEPT !.c.bIsStoppedAtDestination = TRUE,
                           !.c.CurrentStopTime = 0,
                           !.c.TargetStopDuration = GetValidatedRandomRange(MinStopDuration, MaxStopDuration, roll)])

\* ExecutePatrolStandingBehavior, from the check of the path following status on.  The answer of
\* DidMoveReachGoal is logged as 1 or 0.
FollowPatrolPath(w) ==
    IF w.c.CachedPathFollowingComp /\ w.n.Status = "Moving"
    THEN { IF bReachedGoal
           THEN StopToLook(Drew(w, "DidMoveReachGoal", 1), r)
           ELSE Drew(w, "DidMoveReachGoal", 0)
           : bReachedGoal \in BOOLEAN, r \in Rolls }
    ELSE IF w.c.CachedPathFollowingComp /\ w.n.Status # "Idle" THEN {w}
    ELSE SelectPatrolDestination(w)

\* The same in the controller of the plugin, which asks DidMoveReachGoal whatever the status.
FollowPatrolPath_Plugin(w) ==
    IF w.c.CachedPathFollowingComp
    THEN UNION { IF bReachedGoal
                 THEN { StopToLook(Drew(w, "DidMoveReachGoal", 1), r) : r \in Rolls }
                 ELSE LET w1 == Drew(w, "DidMoveReachGoal", 0)
                      IN  IF w1.n.Status = "Moving" THEN {w1} ELSE SelectPatrolDestination(w1)
                 : bReachedGoal \in BOOLEAN }
    ELSE SelectPatrolDestination(w)

ExecutePatrolStandingBehavior(w, DeltaTime) ==
    IF ~w.c.ControlledMonster THEN {w}
    ELSE IF w.c.bIsStoppedAtDestination
    THEN LET w1 == [w EXCEPT !.c.CurrentStopTime = @ + DeltaTime]
         IN  IF w1.c.CurrentStopTime >= w1.c.TargetStopDuration
             THEN FollowPatrolPath([w1 EXCEPT !.c.bIsStoppedAtDestination = FALSE,
                                              !.c.CurrentStopTime = 0])
             ELSE {w1}
    ELSE FollowPatrolPath(w)

ExecutePatrolStandingBehavior_Plugin(w, DeltaTime) ==
    IF ~w.c.ControlledMonster THEN {w}
    ELSE IF w.c.bIsStoppedAtDestination
    THEN LET w1 == [w EXCEPT !.c.CurrentStopTime = @ + DeltaTime]
         IN  IF w1.c.CurrentStopTime >= w1.c.TargetStopDuration
             THEN FollowPatrolPath_Plugin([w1 EXCEPT !.c.bIsStoppedAtDestination = FALSE,
                                                     !.c.CurrentStopTime = 0])
             ELSE {w1}
    ELSE FollowPatrolPath_Plugin(w)


(***************************************************************************)
(* Crawling.  A rotation (FRotator) is kept as the pair of its forward     *)
(* axis X and its up axis Z; Z is the zero vector for the roll-free        *)
(* rotation FVector::Rotation() builds.  A unit direction is kept at       *)
(* length One.                                                             *)
(***************************************************************************)
One == 10
GetSafeNormal(a) == ScaleTo(a, One)
Rotation(Direction) == [X |-> GetSafeNormal(Direction), Z |-> ZeroVector]
MakeFromXZ(XAxis, ZAxis) == [X |-> XAxis, Z |-> ZAxis]

\* FMath::VInterpTo: the step is Dist * Clamp(DeltaTime * InterpSpeed, 0, 1), InterpSpeed = Num / Den.
VInterpTo(Current, Target, DeltaTime, Num, Den) ==
    IF Num <= 0 \/ Current = Target \/ DeltaTime * Num >= Den THEN Target
    ELSE LET Dist == VSub(Target, Current)
         IN  VAdd(Current, <<TruncDiv(Dist[1] * DeltaTime * Num, Den),
                             TruncDiv(Dist[2] * DeltaTime * Num, Den),
                             TruncDiv(Dist[3] * DeltaTime * Num, Den)>>)
\* FMath::RInterpTo for a step that covers the whole difference (DeltaTime * InterpSpeed >= 1);
\* a shorter step keeps the axes it started from, moved part of the way.
RInterpTo(Current, Target, DeltaTime, Num, Den) ==
    IF DeltaTime = 0 \/ Current = Target THEN Current
    ELSE IF Num <= 0 \/ DeltaTime * Num >= Den THEN Target
    ELSE [X |-> VInterpTo(Current.X, Target.X, DeltaTime, Num, Den),
          Z |-> VInterpTo(Current.Z, Target.Z, DeltaTime, Num, Den)]

UpdateSurfaceAlignment(w, DeltaTime) ==
    IF ~w.c.ControlledMonster \/ SurfaceAlignmentSpeed <= 0 THEN w
    ELSE
    LET N == VInterpTo(w.c.CurrentSurfaceNormal, w.c.TargetSurfaceNormal, DeltaTime, SurfaceAlignmentSpeed, 1)
        CurrentRotation == w.a.Rotation
        ToDestination == GetSafeNormal(VSub(w.c.CrawlingDestination, w.a.Location))
        Forward == IF w.c.bIsMovingToCrawlDestination /\ ToDestination # ZeroVector
                   THEN VInterpTo(CurrentRotation.X, ToDestination, DeltaTime, 5, 2)  \* MovementDirectionBlendSpeed = 2.5f
                   ELSE CurrentRotation.X
        ProjectedForward == GetSafeNormal(VSub(Forward, VScale(N, Dot(Forward, N))))
        w1 == [w EXCEPT !.c.CurrentSurfaceNormal = N]
    IN  IF ProjectedForward # ZeroVector /\ N # ZeroVector
        THEN [w1 EXCEPT !.a.Rotation =
                 RInterpTo(CurrentRotation, MakeFromXZ(ProjectedForward, N), DeltaTime, SurfaceAlignmentSpeed, 1)]
        ELSE w1

\* A test of arrival that never reports it.
HasReachedCrawlDestination_Never(w) == FALSE

HasReachedCrawlDestination(w) ==
    /\ w.c.ControlledMonster
    /\ SizeSquared(VSub(w.a.Location, w.c.CrawlingDestination)) <= PatrolAcceptanceRadius * PatrolAcceptanceRadius

\* The random directions FRotator(Pitch, Yaw, 0).Vector() of FindCrawlableDestination: level ones and
\* ones pitched 45 degrees, and for a surface transition also ones pitched past 60 degrees.
CrawlDirections == {<<1, 0, 0>>, <<-1, 0, 0>>, <<1, 0, -1>>}
TransitionDirections == CrawlDirections \cup {<<1, 0, -2>>}

\* One attempt of FindCrawlableDestination: found or not, and the destination if found.
CrawlAttempt(CurrentLocation, RandomDirection, roll) ==
    LET Distance == RandRange(MinCrawlDistance, PatrolRange, roll)
        TargetPoint == VAdd(CurrentLocation, ScaleTo(RandomDirection, Distance))
        Half == CrawlSurfaceDetectionDistance \div 2
        HitResult == LineTraceSingleByChannel(VAdd(TargetPoint, ScaleTo(RandomDirection, Half)),
                                              VSub(TargetPoint, ScaleTo(RandomDirection, Half)))
        SurfaceLocation == VAdd(HitResult.Location, VScale(HitResult.Normal, CrawlSurfaceOffset))
        DirectHit == LineTraceSingleByChannel(CurrentLocation, TargetPoint)
    IN  IF HitResult.bBlockingHit
           /\ ~LineTraceSingleByChannel(CurrentLocation, SurfaceLocation).bBlockingHit
        THEN [bFound |-> TRUE, Location |-> SurfaceLocation, Normal |-> HitResult.Normal]
        ELSE IF DirectHit.bBlockingHit
        THEN [bFound |-> TRUE,
              Location |-> VAdd(DirectHit.Location, VScale(DirectHit.Normal, CrawlSurfaceOffset)),
              Normal |-> DirectHit.Normal]
        ELSE [bFound |-> FALSE, Location |-> ZeroVector, Normal |-> ZeroVector]

\* A fallback that probes upward only.
CrawlFallback_Skyward(CurrentLocation) ==
    LET HitResult == LineTraceSingleByChannel(CurrentLocation,
                                              VAdd(CurrentLocation, <<0, 0, FallbackTraceUpDistance>>))
    IN  IF HitResult.bBlockingHit
        THEN [bFound |-> TRUE,
              Location |-> VAdd(HitResult.Location, VScale(HitResult.Normal, CrawlSurfaceOffset)),
              Normal |-> HitResult.Normal]
        ELSE [bFound |-> FALSE, Location |-> ZeroVector, Normal |-> ZeroVector]

\* The fallback of FindCrawlableDestination: the floor beneath the current position.
CrawlFallback(CurrentLocation) ==
    LET HitResult == LineTraceSingleByChannel(VAdd(CurrentLocation, <<0, 0, FallbackTraceUpDistance>>),
                                              VSub(CurrentLocation, <<0, 0, FallbackTraceDownDistance>>))
    IN  IF HitResult.bBlockingHit
        THEN [bFound |-> TRUE,
              Location |-> VAdd(HitResult.Location, VScale(HitResult.Normal, CrawlSurfaceOffset)),
              Normal |-> HitResult.Normal]
        ELSE [bFound |-> FALSE, Location |-> ZeroVector, Normal |-> ZeroVector]

\* The results of the loop of FindCrawlableDestination.  Every attempt draws afresh, so the loop
\* returns the result of any draw that finds a surface, and falls through to the fallback when
\* MaxAttempts draws in a row find none.
CrawlAttempts(w) ==
    LET CurrentLocation == w.a.Location
        Tried == { CrawlAttempt(CurrentLocation, d, r) :
                     d \in IF w.c.bIsTransitioningBetweenSurfaces THEN TransitionDirections ELSE CrawlDirections,
                     r \in Rolls }
    IN  IF MaxAttempts = 0 THEN {CrawlFallback(CurrentLocation)}
        ELSE { t \in Tried : t.bFound }
             \cup (IF \E t \in Tried : ~t.bFound THEN {CrawlFallback(CurrentLocation)} ELSE {})

FindCrawlableDestination(w) ==
    IF ~w.c.ControlledMonster
    THEN {[bFound |-> FALSE, Location |-> ZeroVector, Normal |-> ZeroVector]}
    ELSE CrawlAttempts(w)


\* The lambda UpdatePositionOnSurface of ExecutePatrolCrawlingBehavior.
UpdatePositionOnSurface(w, Hit) ==
    [w EXCEPT !.a.Location = VAdd(Hit.Location, VScale(Hit.Normal, CrawlSurfaceOffset)),
              !.c.TargetSurfaceNormal = Hit.Normal]

\* static const FVector FallbackTraceDirections[]
FallbackTraceDirections ==
    <<UpVector, DownVector, ForwardVector, <<-1, 0, 0>>, <<0, 1, 0>>, <<0, -1, 0>>>>

\* The loop over FallbackTraceDirections, from index i on: the first direction that hits decides.
RECURSIVE MultiTrace(_, _, _, _)
MultiTrace(w, NextPosition, TraceDistance, i) ==
    IF i > Len(FallbackTraceDirections) THEN [w EXCEPT !.a.Location = NextPosition]
    ELSE LET TraceDir == FallbackTraceDirections[i]
             HitResult == LineTraceSingleByChannel(VAdd(NextPosition, VScale(TraceDir, TraceDistance)),
                                                   VSub(NextPosition, VScale(TraceDir, TraceDistance)))
         IN  IF HitResult.bBlockingHit THEN UpdatePositionOnSurface(w, HitResult)
             ELSE MultiTrace(w, NextPosition, TraceDistance, i + 1)

\* "Calculate the next position": CurrentLocation + ToDestination * MovementDistance.
NextPositionOf(w, DeltaTime) ==
    LET CurrentLocation == w.a.Location
        MovementDistance == GetMovementSpeedForState("PatrolCrawling") * DeltaTime
    IN  VAdd(CurrentLocation, ScaleTo(VSub(w.c.CrawlingDestination, CurrentLocation), MovementDistance))

\* "Move towards the crawling destination with surface-aware movement".
CrawlStep(w, DeltaTime) ==
    LET NextPosition == NextPositionOf(w, DeltaTime)
        TraceDistance == CrawlSurfaceDetectionDistance \div 2   \* SurfaceTraceDistanceMultiplier = 0.5f
        SurfaceCheckNormal == w.c.CurrentSurfaceNormal
        HitResult == LineTraceSingleByChannel(VAdd(NextPosition, VScale(SurfaceCheckNormal, TraceDistance)),
                                              VSub(NextPosition, VScale(SurfaceCheckNormal, TraceDistance)))
    IN  IF HitResult.bBlockingHit THEN UpdatePositionOnSurface(w, HitResult)
        ELSE MultiTrace(w, NextPosition, TraceDistance, 1)

\* "Need to select a new crawl destination".
SelectCrawlDestination(w) ==
    { IF f.bFound
      THEN LET w1 == [w EXCEPT !.c.CrawlingDestination = f.Location,
                               !.c.TargetSurfaceNormal = f.Normal,
                               !.c.bIsMovingToCrawlDestination = TRUE,
                               !.c.bIsTransitioningBetweenSurfaces = FALSE]
               Direction == VSub(f.Location, w.a.Location)
           IN  IF GetSafeNormal(Direction) # ZeroVector
               THEN [w1 EXCEPT !.a.Rotation = Rotation(Direction)]
               ELSE w1
      ELSE w
      : f \in FindCrawlableDestination(w) }

\* FMath::FRand() < SurfaceTransitionChance
ShouldTransitionSurface_Inclusive(RandomValue, Chance) == RandomValue * ChanceDen <= Chance * RandDen
ShouldTransitionSurface(RandomValue, Chance) == RollBelow(RandomValue, Chance)

\* An arrival that starts the pause and leaves the moving flag set.
CrawlOn_StillMoving(w, DeltaTime) ==
    IF w.c.bIsMovingToCrawlDestination
    THEN IF HasReachedCrawlDestination(w)
         THEN { [Drew(w, "FRand", RandomValue)
                    EXCEPT !.c.bIsStoppedAtCrawlDestination = TRUE,
                           !.c.CurrentCrawlStopTime = 0,
                           !.c.TargetCrawlStopDuration =
                               GetValidatedRandomRange(MinStopDuration, MaxStopDuration, r),
                           !.c.bIsTransitioningBetweenSurfaces =
                               IF ShouldTransitionSurface(RandomValue, w.c.SurfaceTransitionChance)
                               THEN TRUE ELSE @]
                : r \in Rolls, RandomValue \in Rolls }
         ELSE {CrawlStep(w, DeltaTime)}
    ELSE SelectCrawlDestination(w)

\* ExecutePatrolCrawlingBehavior, from "Check if we're currently moving to a crawl destination" on.
CrawlOn(w, DeltaTime) ==
    IF w.c.bIsMovingToCrawlDestination
    THEN IF HasReachedCrawlDestination(w)
         THEN { [Drew(w, "FRand", RandomValue)
                    EXCEPT !.c.bIsStoppedAtCrawlDestination = TRUE,
                           !.c.bIsMovingToCrawlDestination = FALSE,
                           !.c.CurrentCrawlStopTime = 0,
                           !.c.TargetCrawlStopDuration =
                               GetValidatedRandomRange(MinStopDuration, MaxStopDuration, r),
                           !.c.bIsTransitioningBetweenSurfaces =
                               IF ShouldTransitionSurface(RandomValue, w.c.SurfaceTransitionChance)
                               THEN TRUE ELSE @]
                : r \in Rolls, RandomValue \in Rolls }
         ELSE {CrawlStep(w, DeltaTime)}
    ELSE SelectCrawlDestination(w)

ExecutePatrolCrawlingBehavior(w, DeltaTime) ==
    IF ~w.c.ControlledMonster THEN {w}
    ELSE LET w1 == UpdateSurfaceAlignment(w, DeltaTime)
         IN  IF w1.c.bIsStoppedAtCrawlDestination
             THEN LET w2 == [w1 EXCEPT !.c.CurrentCrawlStopTime = @ + DeltaTime]
                  IN  IF w2.c.CurrentCrawlStopTime >= w2.c.TargetCrawlStopDuration
                      THEN CrawlOn([w2 EXCEPT !.c.bIsStoppedAtCrawlDestination = FALSE,
                                              !.c.CurrentCrawlStopTime = 0,
                                              !.c.bIsMovingToCrawlDestination = FALSE], DeltaTime)
                      ELSE {w2}
             ELSE CrawlOn(w1, DeltaTime)

\* A Tick whose upright patrol goes back to Idle when its pause is over.
TickController_BackToIdle(w, DeltaTime) ==
    CASE w.c.CurrentState = "Idle" -> ExecuteIdleBehavior(w, DeltaTime)
      [] w.c.CurrentState = "PatrolStanding" ->
             UNION { IF w.c.bIsStoppedAtDestination /\ ~x.c.bIsStoppedAtDestination
                     THEN TransitionToState(x, "Idle")
                     ELSE {x}
                     : x \in ExecutePatrolStandingBehavior(w, DeltaTime) }
      [] w.c.CurrentState = "PatrolCrawling" -> ExecutePatrolCrawlingBehavior(w, DeltaTime)

\* AMonsterAIController::Tick
TickController(w, DeltaTime) ==
    CASE w.c.CurrentState = "Idle" -> ExecuteIdleBehavior(w, DeltaTime)
      [] w.c.CurrentState = "PatrolStanding" -> ExecutePatrolStandingBehavior(w, DeltaTime)
      [] w.c.CurrentState = "PatrolCrawling" -> ExecutePatrolCrawlingBehavior(w, DeltaTime)

\* AMonsterAIController::BeginPlay
BeginPlayController(w) ==
    UNION { LET w1 == [w EXCEPT !.c.bBegunPlay = TRUE,
                                !.c.ControlledMonster = w.m.bPossessed,
                                !.c.CachedNavSystem = w.n.bNavSystem,
                                !.c.CachedPathFollowingComp = TRUE,
                                !.c.NextSubtleMovementTime =
                                    GetValidatedRandomRange(MinSubtleMovementInterval,
                                                            MaxSubtleMovementInterval, r)]
            IN  IF w1.c.ControlledMonster
                THEN OnEnterState(SetBehaviorStateInternal(w1, w1.c.CurrentState), w1.c.CurrentState)
                ELSE {w1}
            : r \in Rolls }

\* AMonsterCharacter::BeginPlay
BeginPlayCharacter(w) ==
    [w EXCEPT !.m.bBegunPlay = TRUE,
              !.m.MaxWalkSpeed = GetMovementSpeedForState(w.m.CurrentBehaviorState)]

\* AMonsterCharacter::SetBehaviorState
SetBehaviorState(w, NewState) ==
    IF w.m.CurrentBehaviorState # NewState
    THEN LET OldState == w.m.CurrentBehaviorState
             w1 == [w EXCEPT !.m.CurrentBehaviorState = NewState,
                             !.m.MaxWalkSpeed = GetMovementSpeedForState(NewState)]
             synced == IF w1.m.bPossessed /\ w1.c.CurrentState # NewState
                       THEN TransitionToState(w1, NewState)
                       ELSE {w1}
         IN  { Called(x, "OnBehaviorStateChanged", OldState, NewState) : x \in synced }
    ELSE {w}


(***************************************************************************)
(* The behaviour state machine with its character: specification Spec.     *)
(***************************************************************************)
MaxCoord == 100        \* the level: Tick is followed while the body is within MaxCoord of the origin

InLevel(p) == \A i \in 1..3 : Abs(p[i]) <= MaxCoord

\* Levels: open space, a floor under every probe, and a floor with a wall ahead.
OpenSpace == [k \in {} |-> NoHit]
FloorBelow == [k \in {DownVector} |-> [Distance |-> 30, Normal |-> UpVector]]
FloorAndWall == [k \in {DownVector, ForwardVector} |->
                    IF k = DownVector THEN [Distance |-> 210, Normal |-> UpVector]
                    ELSE [Distance |-> 100, Normal |-> <<-1, 0, 0>>]]
Levels == {OpenSpace}

Bundle == [c |-> controller, m |-> character, a |-> actor, n |-> nav, log |-> <<>>]

\* The next state is the bundle w2, reached by the operation o.
Becomes(w2, o) ==
    /\ controller' = w2.c
    /\ character' = w2.m
    /\ actor' = w2.a
    /\ nav' = w2.n
    /\ calls' = w2.log
    /\ op' = o
    /\ UNCHANGED <<world, surface>>

NoOp == [name |-> "-", DeltaTime |-> 0, State |-> None]

Init ==
    /\ world \in Levels
    /\ \E s \in {"Idle"}, lo \in Durations, hi \in Durations, p \in Chances, r \in Rolls :
          controller = [bBegunPlay |-> FALSE,
                        ControlledMonster |-> FALSE,
                        CachedNavSystem |-> FALSE,
                        CachedPathFollowingComp |-> FALSE,
                        CurrentState |-> s,
                        MinIdleDuration |-> lo,
                        MaxIdleDuration |-> hi,
                        PatrolTransitionChance |-> p,
                        SurfaceTransitionChance |-> 1,
                        BreathingCycleDuration |-> BreathingCycleDuration,
                        CurrentIdleTime |-> 0,
                        TargetIdleDuration |-> RandRange(DefaultMinIdleDuration, DefaultMaxIdleDuration, r),
                        TimeSinceLastSubtleMovement |-> 0,
                        NextSubtleMovementTime |-> 0,
                        BreathingCycleTime |-> 0,
                        CurrentStopTime |-> 0,
                        TargetStopDuration |-> 0,
                        bIsStoppedAtDestination |-> FALSE,
                        CurrentCrawlStopTime |-> 0,
                        TargetCrawlStopDuration |-> 0,
                        bIsStoppedAtCrawlDestination |-> FALSE,
                        bIsMovingToCrawlDestination |-> FALSE,
                        bIsTransitioningBetweenSurfaces |-> FALSE,
                        CrawlingDestination |-> ZeroVector,
                        CurrentSurfaceNormal |-> UpVector,
                        TargetSurfaceNormal |-> UpVector]
    /\ character = [bBegunPlay |-> FALSE,
                    bPossessed |-> TRUE,
                    CurrentBehaviorState |-> "Idle",
                    MaxWalkSpeed |-> 600 \div 5]
    /\ actor = [Location |-> ZeroVector, Rotation |-> MakeFromXZ(VScale(ForwardVector, One), UpVector)]
    /\ \E b \in BOOLEAN : nav = [bNavSystem |-> b, Status |-> "Idle"]
    /\ surface = Unused
    /\ calls = <<>>
    /\ op = NoOp

BeginPlay ==
    /\ ~controller.bBegunPlay
    /\ \E w2 \in BeginPlayController(Bundle) :
          Becomes(w2, [name |-> "BeginPlay", DeltaTime |-> 0, State |-> None])

CharacterBeginPlay ==
    /\ ~character.bBegunPlay
    /\ Becomes(BeginPlayCharacter(Bundle), [name |-> "CharacterBeginPlay", DeltaTime |-> 0, State |-> None])

Tick ==
    /\ controller.bBegunPlay
    /\ character.bBegunPlay
    /\ InLevel(actor.Location)
    /\ \E DeltaTime \in DeltaTimes :
          \E w2 \in TickController(Bundle, DeltaTime) :
             Becomes(w2, [name |-> "Tick", DeltaTime |-> DeltaTime, State |-> None])

CallTransitionToState ==
    /\ controller.bBegunPlay
    /\ character.bBegunPlay
    /\ \E NewState \in States :
          \E w2 \in TransitionToState(Bundle, NewState) :
             Becomes(w2, [name |-> "TransitionToState", DeltaTime |-> 0, State |-> NewState])

CallSetBehaviorState ==
    /\ controller.bBegunPlay
    /\ character.bBegunPlay
    /\ \E NewState \in States :
          \E w2 \in SetBehaviorState(Bundle, NewState) :
             Becomes(w2, [name |-> "SetBehaviorState", DeltaTime |-> 0, State |-> NewState])

\* The path following component between two ticks: a move ends, pauses or resumes.
PathFollowing ==
    /\ controller.bBegunPlay
    /\ character.bBegunPlay
    /\ nav.Status # "Idle"
    /\ \E s \in {"Idle", "Moving", "Paused"} :
          /\ s # nav.Status
          /\ Becomes([Bundle EXCEPT !.n.Status = s], [name |-> "PathFollowing", DeltaTime |-> 0, State |-> None])

Next ==
    \/ BeginPlay
    \/ CharacterBeginPlay
    \/ Tick
    \/ CallTransitionToState
    \/ CallSetBehaviorState
    \/ PathFollowing

Spec == Init /\ [][Next]_vars


(***************************************************************************)
(* Properties of the behaviour state machine (specification Spec).         *)
(***************************************************************************)
\* The log holds exactly one exit hook and exactly one enter hook, the exit hook first, called
\* for old while the controller still reports old, the enter hook for new once it reports new.
HooksInOrder(log, old, new) ==
    \E i \in DOMAIN log, j \in DOMAIN log :
       /\ i < j
       /\ log[i].f = "OnExitState" /\ log[i].old = old /\ log[i].at = old
       /\ log[j].f = "OnEnterState" /\ log[j].new = new /\ log[j].at = new
       /\ \A k \in DOMAIN log : log[k].f = "OnExitState" => k = i
       /\ \A k \in DOMAIN log : log[k].f = "OnEnterState" => k = j

\* C1: every call TransitionToState(New) with New different from the current state makes New the
\* current state, and every change of the current state invokes OnExitState(old) exactly once, while
\* the controller still reports old, and then OnEnterState(New) exactly once, once it reports New.
C1_ExitThenEnter ==
    [][ /\ (op'.name = "TransitionToState" /\ op'.State # controller.CurrentState)
              => controller'.CurrentState = op'.State
        /\ controller'.CurrentState # controller.CurrentState
              => HooksInOrder(calls', controller.CurrentState, controller'.CurrentState) ]_vars

C1_Witness ==
    /\ op.name = "TransitionToState"
    /\ op.State = "Idle"
    /\ controller.CurrentState = "Idle"
    /\ HooksInOrder(calls, "PatrolCrawling", "Idle")

\* The controller ticks in Idle with a body, and this tick brings the idle time to the target or past it.
IdleTickReachingTarget ==
    /\ op'.name = "Tick"
    /\ controller.CurrentState = "Idle"
    /\ controller.ControlledMonster
    /\ controller.CurrentIdleTime + op'.DeltaTime >= controller.TargetIdleDuration

\* C2: Scenario A. With MinIdleDuration = MaxIdleDuration = 2 and PatrolTransitionChance = 1.0, the
\* tick that completes 2 seconds of idling leaves Idle for PatrolStanding or PatrolCrawling,
\* whatever the random roll.
C2_ScenarioA_LeavesIdle ==
    [][ ( /\ IdleTickReachingTarget
          /\ controller.MinIdleDuration = 2 /\ controller.MaxIdleDuration = 2
          /\ controller.TargetIdleDuration = 2
          /\ controller.PatrolTransitionChance = ChanceDen
          /\ controller.CurrentIdleTime + op'.DeltaTime = 2 )
        => controller'.CurrentState \in {"PatrolStanding", "PatrolCrawling"} ]_vars

\* The log holds the roll of the patrol transition check, and the roll failed against chance.
RollFailed(log, chance) ==
    \E i \in DOMAIN log : log[i].f = "FRand" /\ ~RollBelow(log[i].v, chance)

\* C3: when the idle time reaches the target and the probability roll fails, the state stays Idle,
\* the idle time is reset to 0 and a new target is drawn from the configured range; and with
\* PatrolTransitionChance = 0 no tick leaves Idle.
C3_FailedRollStaysIdle ==
    [][ /\ (IdleTickReachingTarget /\ RollFailed(calls', controller.PatrolTransitionChance))
              => /\ controller'.CurrentState = "Idle"
                 /\ controller'.CurrentIdleTime = 0
                 /\ \E i \in DOMAIN calls' :
                       /\ calls'[i].f = "GetValidatedRandomRange"
                       /\ calls'[i].v = controller'.TargetIdleDuration
                 /\ controller'.TargetIdleDuration >= MinOf(controller.MinIdleDuration, controller.MaxIdleDuration)
                 /\ controller'.TargetIdleDuration <= MaxOf(controller.MinIdleDuration, controller.MaxIdleDuration)
        /\ (op'.name = "Tick" /\ controller.CurrentState = "Idle" /\ controller.PatrolTransitionChance = 0)
              => controller'.CurrentState = "Idle" ]_vars

C3_Witness ==
    /\ op.name = "Tick"
    /\ controller.CurrentState = "Idle"
    /\ controller.PatrolTransitionChance > 0
    /\ RollFailed(calls, controller.PatrolTransitionChance)
    /\ controller.CurrentIdleTime = 0
    /\ controller.MinIdleDuration > controller.MaxIdleDuration

\* C4: a Tick executed in Idle changes the current state only if the idle time, DeltaTime added, is
\* at least the target idle duration, and the new state is then PatrolStanding or PatrolCrawling.
C4_IdleLeavesOnlyAtTarget ==
    [][ (op'.name = "Tick" /\ controller.CurrentState = "Idle" /\ controller'.CurrentState # "Idle")
        => /\ controller.CurrentIdleTime + op'.DeltaTime >= controller.TargetIdleDuration
           /\ controller'.CurrentState \in {"PatrolStanding", "PatrolCrawling"} ]_vars

C4_Witness ==
    /\ op.name = "Tick"
    /\ controller.CurrentState = "PatrolStanding"
    /\ \E i \in DOMAIN calls : calls[i].f = "OnExitState" /\ calls[i].old = "Idle"
    /\ controller.CurrentIdleTime >= controller.TargetIdleDuration
    /\ controller.TargetIdleDuration = 2


(***************************************************************************)
(* GetValidatedRandomRange as a function of its arguments and of the draw: *)
(* specification SpecRange.                                                *)
(***************************************************************************)
RangeArgs == 0..MaxRangeArg

InitRange ==
    /\ world = Unused /\ controller = Unused /\ character = Unused /\ actor = Unused
    /\ nav = Unused /\ surface = Unused /\ calls = <<>>
    /\ \E a \in RangeArgs, b \in RangeArgs, r \in Rolls :
          op = [name |-> "-", MinValue |-> a, MaxValue |-> b, roll |-> r, ret |-> 0]

CallGetValidatedRandomRange ==
    /\ \E a \in RangeArgs, b \in RangeArgs, r \in Rolls :
          op' = [name |-> "GetValidatedRandomRange", MinValue |-> a, MaxValue |-> b, roll |-> r,
                 ret |-> GetValidatedRandomRange(a, b, r)]
    /\ UNCHANGED <<world, controller, character, actor, nav, surface, calls>>

NextRange == CallGetValidatedRandomRange

SpecRange == InitRange /\ [][NextRange]_vars

\* C5: for all inputs (a, b), a > b and a = b included, GetValidatedRandomRange(a, b) returns a
\* value in [min(a, b), max(a, b)], and the same value for (b, a).
C5_ResultWithinBounds ==
    op.name = "GetValidatedRandomRange"
    => /\ op.ret >= MinOf(op.MinValue, op.MaxValue)
       /\ op.ret <= MaxOf(op.MinValue, op.MaxValue)
       /\ op.ret = GetValidatedRandomRange(op.MaxValue, op.MinValue, op.roll)

C5_Witness ==
    /\ op.name = "GetValidatedRandomRange"
    /\ op.MinValue > op.MaxValue
    /\ op.ret > op.MaxValue
    /\ op.ret < op.MinValue


(***************************************************************************)
(* USurfacePathfindingComponent                                            *)
(* (Source/AuraMonster/Private/SurfacePathfindingComponent.cpp).           *)
(* The operators work on the pair b = [s |-> component, a |-> its owner].  *)
(***************************************************************************)
SurfaceDetectionRange == 40    \* 200.0f
AcceptanceRadius == 20         \* 100.0f
SurfaceOffset == 2             \* HitResult.Normal * 10.0f
ComponentAlignmentSpeed == 5   \* SurfaceAlignmentSpeed = 5.0f

\* const FVector TraceDirections[] of DetectSurface
TraceDirections ==
    <<DownVector, UpVector, <<1, 0, 0>>, <<-1, 0, 0>>, <<0, 1, 0>>, <<0, -1, 0>>>>

\* The score of a hit, times 20 * SurfaceDetectionRange: 0.7 * (1 - HitDistance / Range) + 0.3 * AlignmentScore,
\* AlignmentScore = (DotProduct + 1) / 2 on a surface and 0.5 otherwise.
Score_DistanceOnly(s, HitDistance, HitNormal) ==
    14 * (SurfaceDetectionRange - HitDistance)
Score(s, HitDistance, HitNormal) ==
    14 * (SurfaceDetectionRange - HitDistance)
    + (IF s.bIsOnSurface
       THEN 3 * SurfaceDetectionRange * (Dot(s.CurrentSurfaceNormal, HitNormal) + 1)
       ELSE 3 * SurfaceDetectionRange)

NotFound == [bFound |-> FALSE, Location |-> ZeroVector, Normal |-> ZeroVector, BestScore |-> -(20 * SurfaceDetectionRange)]

\* The loop of DetectSurface from direction i on, with the best hit so far.
RECURSIVE DetectFrom(_, _, _, _)
DetectFrom(s, Location, i, best) ==
    IF i > Len(TraceDirections) THEN best
    ELSE LET Direction == TraceDirections[i]
             HitResult == LineTraceSingleByChannel(Location, VAdd(Location, VScale(Direction, SurfaceDetectionRange)))
             HitDistance == Size(VSub(HitResult.Location, Location))
             sc == Score(s, HitDistance, HitResult.Normal)
         IN  IF HitResult.bBlockingHit /\ sc > best.BestScore
             THEN DetectFrom(s, Location, i + 1,
                             [bFound |-> TRUE,
                              Location |-> VAdd(HitResult.Location, VScale(HitResult.Normal, SurfaceOffset)),
                              Normal |-> HitResult.Normal,
                              BestScore |-> sc])
             ELSE DetectFrom(s, Location, i + 1, best)

DetectSurface(s, Location) == DetectFrom(s, Location, 1, NotFound)

AlignToSurface(b, TargetNormal, DeltaTime) ==
    IF ~b.s.CachedOwner THEN b
    ELSE
    LET CurrentRotation == b.a.Rotation
        CurrentForward == GetSafeNormal(CurrentRotation.X)
        Right0 == Cross(TargetNormal, CurrentForward)
        ReferenceVector == IF 10 * Abs(TargetNormal[3]) < 9 THEN UpVector ELSE ForwardVector
        RightVector == GetSafeNormal(IF SizeSquared(Right0) = 0 THEN Cross(TargetNormal, ReferenceVector) ELSE Right0)
        Forward == GetSafeNormal(Cross(RightVector, TargetNormal))
        TargetRotation == MakeFromXZ(Forward, TargetNormal)
    IN  [b EXCEPT !.a.Rotation = RInterpTo(CurrentRotation, TargetRotation, DeltaTime, ComponentAlignmentSpeed, 1)]

\* "Snap to detected surface": the three assignments and the alignment that follow a detection.
SnapTo(b, Location, Normal, DeltaTime) ==
    AlignToSurface([b EXCEPT !.a.Location = Location,
                             !.s.CurrentSurfaceNormal = Normal,
                             !.s.bIsOnSurface = TRUE], Normal, DeltaTime)

\* FVector::DotProduct(Normal, Direction / |Direction|) < -0.3f
OpposesMovement_Never(Normal, Direction) == FALSE
OpposesMovement(Normal, Direction) ==
    /\ Dot(Normal, Direction) < 0
    /\ 100 * Dot(Normal, Direction) * Dot(Normal, Direction) > 9 * SizeSquared(Normal) * SizeSquared(Direction)

\* DistanceToTarget <= AcceptanceRadius
WithinAcceptance_Strict(DirectionToTarget) ==
    SizeSquared(DirectionToTarget) < AcceptanceRadius * AcceptanceRadius
WithinAcceptance(DirectionToTarget) ==
    SizeSquared(DirectionToTarget) <= AcceptanceRadius * AcceptanceRadius

\* The trace of MoveTowardsSurfaceLocation toward the desired location and SurfaceDetectionRange past it.
PathTrace(CurrentLocation, TargetLocation, DeltaTime, Speed) ==
    LET DirectionToTarget == VSub(TargetLocation, CurrentLocation)
        MovementThisFrame == MinOf(Speed * DeltaTime, Size(DirectionToTarget))
    IN  LineTraceSingleByChannel(
            CurrentLocation,
            VAdd(CurrentLocation, ScaleTo(DirectionToTarget, MovementThisFrame + SurfaceDetectionRange)))

\* "Calculate movement for this frame": CurrentLocation + DirectionToTarget * MovementThisFrame.
DesiredLocationOf(CurrentLocation, TargetLocation, DeltaTime, Speed) ==
    LET DirectionToTarget == VSub(TargetLocation, CurrentLocation)
        DistanceToTarget == Size(DirectionToTarget)
        MovementThisFrame == MinOf(Speed * DeltaTime, DistanceToTarget)
    IN  VAdd(CurrentLocation, ScaleTo(DirectionToTarget, MovementThisFrame))

\* The same in the earlier revision of the component, which takes the whole of Speed * DeltaTime.
NewLocationOf(CurrentLocation, TargetLocation, DeltaTime, Speed) ==
    VAdd(CurrentLocation, ScaleTo(VSub(TargetLocation, CurrentLocation), Speed * DeltaTime))

\* MoveTowardsSurfaceLocation: the value returned, the component and owner it leaves, and the
\* hit of its path trace (no hit when it returns before the trace).
MoveTowardsSurfaceLocation(b, TargetLocation, DeltaTime, Speed) ==
    IF ~b.s.CachedOwner THEN [ret |-> FALSE, b |-> b, ForwardHit |-> NoHit]
    ELSE
    LET CurrentLocation == b.a.Location
        DirectionToTarget == VSub(TargetLocation, CurrentLocation)
        DesiredLocation == DesiredLocationOf(CurrentLocation, TargetLocation, DeltaTime, Speed)
        ForwardHit == PathTrace(CurrentLocation, TargetLocation, DeltaTime, Speed)
        AtCurrent == DetectSurface(b.s, CurrentLocation)
        AtDesired == DetectSurface(b.s, DesiredLocation)
    IN  IF WithinAcceptance(DirectionToTarget) THEN [ret |-> FALSE, b |-> b, ForwardHit |-> NoHit]
        ELSE IF ForwardHit.bBlockingHit
        THEN IF OpposesMovement(ForwardHit.Normal, DirectionToTarget)
             THEN [ret |-> TRUE,
                   b |-> IF AtCurrent.bFound
                         THEN SnapTo(b, AtCurrent.Location, AtCurrent.Normal, DeltaTime)
                         ELSE b,
                   ForwardHit |-> ForwardHit]
             ELSE [ret |-> TRUE,
                   b |-> SnapTo(b, VAdd(ForwardHit.Location, VScale(ForwardHit.Normal, SurfaceOffset)),
                                ForwardHit.Normal, DeltaTime),
                   ForwardHit |-> ForwardHit]
        ELSE IF AtDesired.bFound
        THEN [ret |-> TRUE, b |-> SnapTo(b, AtDesired.Location, AtDesired.Normal, DeltaTime),
              ForwardHit |-> ForwardHit]
        ELSE [ret |-> TRUE, b |-> [b EXCEPT !.a.Location = DesiredLocation, !.s.bIsOnSurface = FALSE],
              ForwardHit |-> ForwardHit]

\* The later revision of the component (src/unnamed/part_000) starts its path trace 5 UU ahead of the body.
TraceStartOffset == 1

PathTrace_Near(CurrentLocation, TargetLocation, DeltaTime, Speed) ==
    LET DirectionToTarget == VSub(TargetLocation, CurrentLocation)
        MovementThisFrame == MinOf(Speed * DeltaTime, Size(DirectionToTarget))
    IN  LineTraceSingleByChannel(
            VAdd(CurrentLocation, ScaleTo(DirectionToTarget, TraceStartOffset)),
            VAdd(CurrentLocation, ScaleTo(DirectionToTarget, MovementThisFrame + SurfaceDetectionRange)))

\* HitDistance < MovementThisFrame * 1.5f
IsNearHit(HitDistance, MovementThisFrame) == 2 * HitDistance < 3 * MovementThisFrame

\* MoveTowardsSurfaceLocation of that revision: an opposing hit is an obstacle only when it is near.
MoveTowardsSurfaceLocation_Near(b, TargetLocation, DeltaTime, Speed) ==
    IF ~b.s.CachedOwner THEN [ret |-> FALSE, b |-> b, ForwardHit |-> NoHit]
    ELSE
    LET CurrentLocation == b.a.Location
        DirectionToTarget == VSub(TargetLocation, CurrentLocation)
        DistanceToTarget == Size(DirectionToTarget)
        MovementThisFrame == MinOf(Speed * DeltaTime, DistanceToTarget)
        DesiredLocation == VAdd(CurrentLocation, ScaleTo(DirectionToTarget, MovementThisFrame))
        ForwardHit == PathTrace_Near(CurrentLocation, TargetLocation, DeltaTime, Speed)
        HitDistance == Size(VSub(ForwardHit.Location, CurrentLocation))
        AtCurrent == DetectSurface(b.s, CurrentLocation)
        AtDesired == DetectSurface(b.s, DesiredLocation)
    IN  IF WithinAcceptance(DirectionToTarget) THEN [ret |-> FALSE, b |-> b, ForwardHit |-> NoHit]
        ELSE IF ForwardHit.bBlockingHit
        THEN IF IsNearHit(HitDistance, MovementThisFrame)
                /\ OpposesMovement(ForwardHit.Normal, DirectionToTarget)
             THEN [ret |-> TRUE,
                   b |-> IF AtCurrent.bFound
                         THEN SnapTo(b, AtCurrent.Location, AtCurrent.Normal, DeltaTime)
                         ELSE b,
                   ForwardHit |-> ForwardHit]
             ELSE [ret |-> TRUE,
                   b |-> SnapTo(b, VAdd(ForwardHit.Location, VScale(ForwardHit.Normal, SurfaceOffset)),
                                ForwardHit.Normal, DeltaTime),
                   ForwardHit |-> ForwardHit]
        ELSE IF AtDesired.bFound
        THEN [ret |-> TRUE, b |-> SnapTo(b, AtDesired.Location, AtDesired.Normal, DeltaTime),
              ForwardHit |-> ForwardHit]
        ELSE [ret |-> TRUE, b |-> [b EXCEPT !.a.Location = DesiredLocation, !.s.bIsOnSurface = FALSE],
              ForwardHit |-> ForwardHit]

\* FMath::Abs(DotProduct) < 0.7f, for unit normals
IsEdgeTransition(CurrentNormal, NearestNormal) == 10 * Abs(Dot(CurrentNormal, NearestNormal)) < 7

\* MoveTowardsSurfaceLocation of the revision in src/unnamed/part_001: as the one of part_000
\* while the path trace hits; without a hit it looks for an edge, and for the surface at the
\* current position before it lets go.
MoveTowardsSurfaceLocation_Edge(b, TargetLocation, DeltaTime, Speed) ==
    IF ~b.s.CachedOwner THEN [ret |-> FALSE, b |-> b, ForwardHit |-> NoHit]
    ELSE
    LET CurrentLocation == b.a.Location
        DirectionToTarget == VSub(TargetLocation, CurrentLocation)
        DistanceToTarget == Size(DirectionToTarget)
        MovementThisFrame == MinOf(Speed * DeltaTime, DistanceToTarget)
        DesiredLocation == VAdd(CurrentLocation, ScaleTo(DirectionToTarget, MovementThisFrame))
        ForwardHit == PathTrace_Near(CurrentLocation, TargetLocation, DeltaTime, Speed)
        HitDistance == Size(VSub(ForwardHit.Location, CurrentLocation))
        AtCurrent == DetectSurface(b.s, CurrentLocation)
        AtDesired == DetectSurface(b.s, DesiredLocation)
        EdgeLocation == VAdd(CurrentLocation, ScaleTo(DirectionToTarget, MovementThisFrame \div 2))
        AtEdge == DetectSurface(b.s, EdgeLocation)
    IN  IF WithinAcceptance(DirectionToTarget) THEN [ret |-> FALSE, b |-> b, ForwardHit |-> NoHit]
        ELSE IF ForwardHit.bBlockingHit
        THEN IF IsNearHit(HitDistance, MovementThisFrame)
                /\ OpposesMovement(ForwardHit.Normal, DirectionToTarget)
             THEN [ret |-> TRUE,
                   b |-> IF AtCurrent.bFound
                         THEN SnapTo(b, AtCurrent.Location, AtCurrent.Normal, DeltaTime)
                         ELSE b,
                   ForwardHit |-> ForwardHit]
             ELSE [ret |-> TRUE,
                   b |-> SnapTo(b, VAdd(ForwardHit.Location, VScale(ForwardHit.Normal, SurfaceOffset)),
                                ForwardHit.Normal, DeltaTime),
                   ForwardHit |-> ForwardHit]
        ELSE IF AtDesired.bFound
        THEN IF b.s.bIsOnSurface
                /\ IsEdgeTransition(b.s.CurrentSurfaceNormal, AtDesired.Normal)
                /\ AtEdge.bFound
             THEN [ret |-> TRUE, b |-> SnapTo(b, AtEdge.Location, AtEdge.Normal, DeltaTime),
                   ForwardHit |-> ForwardHit]
             ELSE [ret |-> TRUE, b |-> SnapTo(b, AtDesired.Location, AtDesired.Normal, DeltaTime),
                   ForwardHit |-> ForwardHit]
        ELSE IF AtCurrent.bFound
        THEN [ret |-> TRUE, b |-> SnapTo(b, AtCurrent.Location, AtCurrent.Normal, DeltaTime),
              ForwardHit |-> ForwardHit]
        ELSE [ret |-> TRUE, b |-> [b EXCEPT !.a.Location = DesiredLocation, !.s.bIsOnSurface = FALSE],
              ForwardHit |-> ForwardHit]

\* USurfacePathfindingComponent::BeginPlay
BeginPlayComponent(b) ==
    LET b1 == [b EXCEPT !.s.CachedOwner = TRUE]
        d == DetectSurface(b1.s, b1.a.Location)
    IN  IF d.bFound THEN [b1 EXCEPT !.s.CurrentSurfaceNormal = d.Normal, !.s.bIsOnSurface = TRUE]
        ELSE b1

\* A TickComponent that looks for a surface whether or not it is on one.
TickComponentOf_Always(b, DeltaTime) ==
    IF b.s.CachedOwner
    THEN LET d == DetectSurface(b.s, b.a.Location)
         IN  IF d.bFound
             THEN AlignToSurface([b EXCEPT !.s.CurrentSurfaceNormal = d.Normal, !.s.bIsOnSurface = TRUE],
                                 d.Normal, DeltaTime)
             ELSE [b EXCEPT !.s.bIsOnSurface = FALSE]
    ELSE b

\* USurfacePathfindingComponent::TickComponent
TickComponentOf(b, DeltaTime) ==
    IF b.s.CachedOwner /\ b.s.bIsOnSurface
    THEN LET d == DetectSurface(b.s, b.a.Location)
         IN  IF d.bFound
             THEN AlignToSurface([b EXCEPT !.s.CurrentSurfaceNormal = d.Normal], d.Normal, DeltaTime)
             ELSE [b EXCEPT !.s.bIsOnSurface = FALSE]
    ELSE b


(***************************************************************************)
(* The surface component with its owner: specification SpecSurf.           *)
(***************************************************************************)
\* The ray service answers by direction: a hit at the given distance along every ray of that direction.
Stub(keys, hits) == [k \in keys |-> hits[k]]
Floor == [Distance |-> 2, Normal |-> UpVector]
WallAt(d) == [Distance |-> d, Normal |-> <<-1, 0, 0>>]
SurfLevels ==
    { OpenSpace,
      [k \in {DownVector} |-> Floor],
      [k \in {ForwardVector} |-> WallAt(10)],
      [k \in {ForwardVector} |-> WallAt(60)],
      [k \in {DownVector, ForwardVector} |-> IF k = DownVector THEN Floor ELSE WallAt(10)],
      [k \in {DownVector, ForwardVector} |-> IF k = DownVector THEN Floor ELSE WallAt(35)],
      [k \in {ForwardVector} |-> [Distance |-> 10, Normal |-> UpVector]],
      [k \in {<<0, 1, 0>>, UpVector} |->
          IF k = UpVector THEN [Distance |-> 5, Normal |-> DownVector]
          ELSE [Distance |-> 30, Normal |-> <<0, -1, 0>>]],
      [k \in {<<1, 0, 1>>, <<-1, -1, -1>>} |->
          IF k = <<1, 0, 1>> THEN [Distance |-> 10, Normal |-> <<0, 1, 0>>]
          ELSE [Distance |-> 20, Normal |-> <<1, 0, 0>>]] }

TargetLocations == {<<100, 0, 0>>, <<20, 0, 0>>, <<0, 60, 0>>, <<30, 0, 40>>, <<-40, 0, 0>>}

\* The calls of MoveTowardsSurfaceLocation explored from one start.
MaxMoves == 2

MoveNames == {"MoveTowardsSurfaceLocation", "MoveTowardsSurfaceLocation_Near", "MoveTowardsSurfaceLocation_Edge"}

SurfBundle == [s |-> surface, a |-> actor]

InitSurf ==
    /\ world \in SurfLevels
    /\ controller = Unused /\ character = Unused /\ nav = Unused
    /\ surface = [CachedOwner |-> FALSE, CurrentSurfaceNormal |-> UpVector, bIsOnSurface |-> FALSE]
    /\ actor = [Location |-> ZeroVector, Rotation |-> MakeFromXZ(VScale(ForwardVector, One), UpVector)]
    /\ calls = <<>>
    /\ op = [name |-> "-", TargetLocation |-> ZeroVector, DeltaTime |-> 0, ret |-> FALSE, ForwardHit |-> NoHit]

SurfBecomes(b2, o) ==
    /\ surface' = b2.s
    /\ actor' = b2.a
    /\ op' = o
    /\ calls' = IF o.name \in MoveNames THEN Append(calls, o.name) ELSE calls
    /\ UNCHANGED <<world, controller, character, nav>>

ComponentBeginPlay ==
    /\ ~surface.CachedOwner
    /\ SurfBecomes(BeginPlayComponent(SurfBundle),
                   [name |-> "BeginPlay", TargetLocation |-> ZeroVector, DeltaTime |-> 0,
                    ret |-> FALSE, ForwardHit |-> NoHit])

TickComponent ==
    /\ surface.CachedOwner
    /\ \E DeltaTime \in DeltaTimes :
          SurfBecomes(TickComponentOf(SurfBundle, DeltaTime),
                      [name |-> "TickComponent", TargetLocation |-> ZeroVector, DeltaTime |-> DeltaTime,
                       ret |-> FALSE, ForwardHit |-> NoHit])

\* A body is driven by one revision of the component throughout.
CallMoveTowardsSurfaceLocation ==
    /\ Len(calls) < MaxMoves
    /\ \A i \in 1..Len(calls) : calls[i] = "MoveTowardsSurfaceLocation"
    /\ InLevel(actor.Location)
    /\ \E TargetLocation \in TargetLocations, DeltaTime \in DeltaTimes :
          LET r == MoveTowardsSurfaceLocation(SurfBundle, TargetLocation, DeltaTime, PatrolCrawlingSpeed)
          IN  SurfBecomes(r.b, [name |-> "MoveTowardsSurfaceLocation", TargetLocation |-> TargetLocation,
                                DeltaTime |-> DeltaTime, ret |-> r.ret, ForwardHit |-> r.ForwardHit])

CallMoveTowardsSurfaceLocation_Near ==
    /\ Len(calls) < MaxMoves
    /\ \A i \in 1..Len(calls) : calls[i] = "MoveTowardsSurfaceLocation_Near"
    /\ InLevel(actor.Location)
    /\ \E TargetLocation \in TargetLocations, DeltaTime \in DeltaTimes :
          LET r == MoveTowardsSurfaceLocation_Near(SurfBundle, TargetLocation, DeltaTime, PatrolCrawlingSpeed)
          IN  SurfBecomes(r.b, [name |-> "MoveTowardsSurfaceLocation_Near", TargetLocation |-> TargetLocation,
                                DeltaTime |-> DeltaTime, ret |-> r.ret, ForwardHit |-> r.ForwardHit])

NextSurf ==
    \/ ComponentBeginPlay
    \/ TickComponent
    \/ CallMoveTowardsSurfaceLocation
    \/ CallMoveTowardsSurfaceLocation_Near

SpecSurf == InitSurf /\ [][NextSurf]_vars


\* The squared distance from the body to the target of the call being made.
RemainingSquared == SizeSquared(VSub(op'.TargetLocation, actor.Location))

BelowThreshold(Normal, Direction) ==
    /\ Dot(Normal, Direction) < 0
    /\ 100 * Dot(Normal, Direction) * Dot(Normal, Direction) > 9 * SizeSquared(Direction)

\* The path ray of the call being made, as the revision called traces it.
PathRay ==
    IF op'.name = "MoveTowardsSurfaceLocation"
    THEN PathTrace(actor.Location, op'.TargetLocation, op'.DeltaTime, PatrolCrawlingSpeed)
    ELSE PathTrace_Near(actor.Location, op'.TargetLocation, op'.DeltaTime, PatrolCrawlingSpeed)

\* What a call that meets an opposing hit must do: return true, leave the body short of the hit
\* point along the direction of travel, and place it nowhere but where it was or on the surface
\* detected at its current position.
RefusesAtObstacle ==
    LET Direction == VSub(op'.TargetLocation, actor.Location)
        AtCurrent == DetectSurface(surface, actor.Location)
    IN  /\ op'.ret = TRUE
        /\ Dot(VSub(actor'.Location, PathRay.Location), Direction) < 0
        /\ \/ actor'.Location = actor.Location
           \/ AtCurrent.bFound /\ actor'.Location = AtCurrent.Location

\* The call being made is beyond the acceptance radius and its path ray reports an opposing hit.
MeetsObstacle ==
    /\ op'.name \in MoveNames
    /\ surface.CachedOwner
    /\ RemainingSquared > AcceptanceRadius * AcceptanceRadius
    /\ PathRay.bBlockingHit
    /\ BelowThreshold(PathRay.Normal, VSub(op'.TargetLocation, actor.Location))

\* C7: Scenario C: when the path ray reports a hit whose normal opposes the direction of travel
\* beyond the -0.3 threshold, MoveTowardsSurfaceLocation returns true and does not move the body
\* to or past the hit point: it only re-grounds the body on the surface at its current position.
C7_ObstacleRefused ==
    [][ MeetsObstacle => RefusesAtObstacle ]_vars

\* The same statement for the revision of src/Source/AuraMonster/Private/SurfacePathfindingComponent.cpp alone.
C7_ObstacleRefused_Source ==
    [][ (MeetsObstacle /\ op'.name = "MoveTowardsSurfaceLocation") => RefusesAtObstacle ]_vars

\* A call of that revision met the wall of Scenario C: normal (-1,0,0) against travel along (1,0,0).
C7_Witness_Source ==
    /\ op.name = "MoveTowardsSurfaceLocation"
    /\ op.ret = TRUE
    /\ op.ForwardHit.bBlockingHit
    /\ op.ForwardHit.Normal = <<-1, 0, 0>>
    /\ op.TargetLocation[1] > actor.Location[1]
    /\ op.TargetLocation[2] = actor.Location[2]
    /\ op.TargetLocation[3] = actor.Location[3]


(***************************************************************************)
(* DetectSurface over every arrangement of surfaces around the body:       *)
(* specification SpecDetect.                                               *)
(***************************************************************************)
\* The distances at which a surface may face the body along a world axis; 0 stands for no surface.
HitDistances == {20, 25}
AxisDirections == {TraceDirections[i] : i \in 1..Len(TraceDirections)}

\* The ray service in which direction k meets a surface facing the body at distance f[k].
Surroundings(f) ==
    [k \in {d \in AxisDirections : f[d] # 0} |-> [Distance |-> f[k], Normal |-> VScale(k, -1)]]

\* The places from which detection is asked, shifted from the origin in steps.
MaxDetectShift == 1
DetectLocations == {<<5 * k, 0, -5 * k>> : k \in 0..MaxDetectShift}

InitDetect ==
    /\ world \in {Surroundings(f) : f \in [AxisDirections -> {0} \cup HitDistances]}
    /\ controller = Unused /\ character = Unused /\ nav = Unused
    /\ \E n \in {UpVector, <<1, 0, 0>>, <<0, -1, 0>>}, on \in BOOLEAN :
          surface = [CachedOwner |-> TRUE, CurrentSurfaceNormal |-> n, bIsOnSurface |-> on]
    /\ actor = [Location |-> ZeroVector, Rotation |-> MakeFromXZ(VScale(ForwardVector, One), UpVector)]
    /\ calls = <<>>
    /\ op = [name |-> "-", Location |-> ZeroVector, ret |-> NotFound]

CallDetectSurface ==
    /\ \E Location \in DetectLocations :
          op' = [name |-> "DetectSurface", Location |-> Location, ret |-> DetectSurface(surface, Location)]
    /\ UNCHANGED <<world, controller, character, actor, nav, surface, calls>>

NextDetect == CallDetectSurface

SpecDetect == InitDetect /\ [][NextDetect]_vars

\* The hit of the ray cast from the call's location along world axis i.
AxisHit(i) ==
    LineTraceSingleByChannel(op.Location, VAdd(op.Location, VScale(TraceDirections[i], SurfaceDetectionRange)))

HittingDirections == {i \in 1..Len(TraceDirections) : AxisHit(i).bBlockingHit}

\* 0.7 * (1 - hitDistance / range) + 0.3 * alignment, times 20 * range.
WeightedScore(i) ==
    LET hitDistance == Size(VSub(AxisHit(i).Location, op.Location))
        dot == Dot(surface.CurrentSurfaceNormal, AxisHit(i).Normal)
    IN  IF surface.bIsOnSurface
        THEN 14 * (SurfaceDetectionRange - hitDistance) + 3 * SurfaceDetectionRange * (dot + 1)
        ELSE 14 * (SurfaceDetectionRange - hitDistance) + 3 * SurfaceDetectionRange

MaxPlanAttempts == 3

\* The directions an attempt may draw, by the octant the ray service distinguishes.
PlanDirections == {<<1, 0, 0>>, <<1, 0, -1>>, <<0, 1, 0>>, DownVector}

\* bOnHorizontalSurface: |CurrentSurfaceNormal.Z| > 0.7
OnHorizontalSurface(s) == s.bIsOnSurface /\ 10 * Abs(s.CurrentSurfaceNormal[3]) > 7

\* On a horizontal surface the direction is 0.4 of a random unit vector plus 0.6 of a vector whose
\* horizontal part has length one, so its horizontal part never vanishes; otherwise any direction.
BiasedDirections(s) ==
    IF OnHorizontalSurface(s) THEN {d \in PlanDirections : d[1] # 0 \/ d[2] # 0} ELSE PlanDirections

\* const float SurfaceTransitionThreshold = 0.5f: the dot product is below it.
BelowTransitionThreshold(DotProduct) == 2 * DotProduct < 1

NothingPlanned == [ret |-> FALSE, Location |-> ZeroVector, Normal |-> ZeroVector]

\* The trace of one attempt: from the origin along the drawn direction to the drawn distance.
AttemptTrace(OriginLocation, Range, draw) ==
    LET RandomDistance == RandRange(Range \div 2, Range, draw.roll)
    IN  LineTraceSingleByChannel(OriginLocation, VAdd(OriginLocation, ScaleTo(draw.dir, RandomDistance)))

\* The loop of GetRandomSurfaceLocation from attempt i on.
RECURSIVE PlanFrom(_, _, _, _, _)
PlanFrom(s, OriginLocation, Range, draws, i) ==
    IF i > Len(draws) THEN NothingPlanned
    ELSE LET HitResult == AttemptTrace(OriginLocation, Range, draws[i])
             Found == [ret |-> TRUE,
                       Location |-> VAdd(HitResult.Location, VScale(HitResult.Normal, SurfaceOffset)),
                       Normal |-> HitResult.Normal]
         IN  IF HitResult.bBlockingHit
             THEN IF s.bIsOnSurface
                     /\ BelowTransitionThreshold(Dot(s.CurrentSurfaceNormal, HitResult.Normal))
                  THEN Found
                  ELSE Found
             ELSE PlanFrom(s, OriginLocation, Range, draws, i + 1)

GetRandomSurfaceLocation(s, OriginLocation, Range, draws) ==
    IF ~s.CachedOwner THEN NothingPlanned
    ELSE PlanFrom(s, OriginLocation, Range, draws, 1)

\* A floor continuing beyond a step, a wall ahead, both, or nothing.
FarFloor == [Distance |-> 150, Normal |-> UpVector]
PlanLevels ==
    { OpenSpace,
      [k \in {<<1, 0, -1>>} |-> FarFloor],
      [k \in {<<1, 0, 0>>} |-> WallAt(80)],
      [k \in {<<1, 0, -1>>, <<1, 0, 0>>} |-> IF k = <<1, 0, 0>> THEN WallAt(80) ELSE FarFloor],
      [k \in {DownVector, <<1, 0, 0>>} |-> IF k = <<1, 0, 0>> THEN WallAt(80) ELSE FarFloor] }

InitPlan ==
    /\ world \in PlanLevels
    /\ controller = Unused /\ character = Unused /\ nav = Unused
    /\ \E n \in {UpVector, <<0, 1, 0>>}, on \in BOOLEAN :
          surface = [CachedOwner |-> TRUE, CurrentSurfaceNormal |-> n, bIsOnSurface |-> on]
    /\ actor = [Location |-> ZeroVector, Rotation |-> MakeFromXZ(VScale(ForwardVector, One), UpVector)]
    /\ calls = <<>>
    /\ op = [name |-> "-", draws |-> <<>>, ret |-> FALSE, Location |-> ZeroVector, Normal |-> ZeroVector]

\* One call is explored from each start: the function keeps nothing from one call to the next.
CallGetRandomSurfaceLocation ==
    /\ op.name = "-"
    /\ \E draws \in [1..MaxPlanAttempts -> [dir : BiasedDirections(surface), roll : Rolls]] :
          LET r == GetRandomSurfaceLocation(surface, actor.Location, PatrolRange, draws)
          IN  op' = [name |-> "GetRandomSurfaceLocation", draws |-> draws,
                     ret |-> r.ret, Location |-> r.Location, Normal |-> r.Normal]
    /\ UNCHANGED <<world, controller, character, actor, nav, surface, calls>>

NextPlan == CallGetRandomSurfaceLocation

SpecPlan == InitPlan /\ [][NextPlan]_vars

\* The normals of the surfaces that the rays of the call's attempts meet.
NormalsOffered ==
    {AttemptTrace(actor.Location, PatrolRange, op.draws[i]).Normal :
        i \in {j \in 1..Len(op.draws) :
                  AttemptTrace(actor.Location, PatrolRange, op.draws[j]).bBlockingHit}}

\* C9: Scenario D: when the body is on a surface and the rays of the attempts meet two candidate
\* surfaces, one parallel to the current surface normal and one perpendicular to it, the planner
\* returns the perpendicular one, whichever of the two is met first.
C9_PrefersPerpendicular ==
    ( /\ op.name = "GetRandomSurfaceLocation"
      /\ surface.bIsOnSurface
      /\ \E n \in NormalsOffered : Dot(surface.CurrentSurfaceNormal, n) = 1
      /\ \E n \in NormalsOffered : Dot(surface.CurrentSurfaceNormal, n) = 0 )
    => (op.ret /\ Dot(surface.CurrentSurfaceNormal, op.Normal) = 0)


(***************************************************************************)
(* Stuck detection while crawling.  MonsterAIController.h declares         *)
(* CrawlingTargetLocation, bHasCrawlingTarget, PreviousCrawlingLocation    *)
(* and StuckTime; the statements that use them are in no source file at    *)
(* hand, so the tick below follows the written description of the stuck    *)
(* tracker: specifications SpecStuck and SpecStuckFair.                    *)
(***************************************************************************)
\* Seconds of negligible progress after which the destination is given up ("e.g. 2s").
StuckTimeThreshold == 2
\* Displacement per second at or below which a step counts as no progress.
MinProgressSpeed == 1
\* The body crawls along one axis between 0 and MaxStuckCoord.
MaxStuckCoord == 6

Along(x) == <<x, 0, 0>>
\* What one movement step achieves: blocked, creeping, or free.
StuckSteps == {0, 1, 3}
NoDestination == <<>>
StuckTargets == {Along(0), Along(MaxStuckCoord)}

\* The tracker takes the displacement since the previous sample.
FeedStuckTracker(c, Location, DeltaTime) ==
    LET DisplacementSquared == SizeSquared(VSub(Location, c.PreviousCrawlingLocation))
        Negligible == MinProgressSpeed * DeltaTime
    IN  [c EXCEPT !.StuckTime = IF DisplacementSquared > Negligible * Negligible THEN 0 ELSE @ + DeltaTime,
                  !.PreviousCrawlingLocation = Location]

IsStuck_Late(c) == c.StuckTime > StuckTimeThreshold
IsStuck(c) == c.StuckTime >= StuckTimeThreshold

DiscardDestination(c) ==
    [c EXCEPT !.bHasCrawlingTarget = FALSE, !.StuckTime = 0, !.Discards = @ + 1]

\* The planner is asked for a destination; it may find none.
RequestDestination(c, Location, planned) ==
    IF planned = NoDestination THEN c
    ELSE [c EXCEPT !.bHasCrawlingTarget = TRUE,
                   !.CrawlingTargetLocation = planned,
                   !.PreviousCrawlingLocation = Location,
                   !.StuckTime = 0,
                   !.Discards = 0]

\* A step along the axis of the crawl, no farther than the destination.
StepToward(Location, Target, step) ==
    LET d == Target[1] - Location[1]
    IN  VAdd(Location, Along(Sign(d) * MinOf(step, Abs(d))))

\* One tick of PatrolCrawling on controller c and body a: what it leaves, and what it did.
CrawlTick(c, a, DeltaTime, step, planned) ==
    IF ~c.bHasCrawlingTarget
    THEN [c |-> RequestDestination(c, a.Location, planned), a |-> a, requested |-> TRUE, discarded |-> FALSE]
    ELSE IF a.Location = c.CrawlingTargetLocation
    THEN [c |-> [c EXCEPT !.bHasCrawlingTarget = FALSE, !.StuckTime = 0],
          a |-> a, requested |-> FALSE, discarded |-> FALSE]
    ELSE LET NewLocation == StepToward(a.Location, c.CrawlingTargetLocation, step)
             fed == FeedStuckTracker(c, NewLocation, DeltaTime)
         IN  IF IsStuck(fed)
             THEN [c |-> DiscardDestination(fed), a |-> [a EXCEPT !.Location = NewLocation],
                   requested |-> FALSE, discarded |-> TRUE]
             ELSE [c |-> fed, a |-> [a EXCEPT !.Location = NewLocation],
                   requested |-> FALSE, discarded |-> FALSE]

\* Entering PatrolCrawling resets the crawl destination and the stuck tracker.
EnterPatrolCrawling(c, a) ==
    [c EXCEPT !.bHasCrawlingTarget = FALSE, !.StuckTime = 0, !.PreviousCrawlingLocation = a.Location]

InitStuck ==
    /\ world = Unused /\ character = Unused /\ nav = Unused /\ surface = Unused
    /\ \E x \in {0, 3} :
          /\ actor = [Location |-> Along(x), Rotation |-> MakeFromXZ(VScale(ForwardVector, One), UpVector)]
          /\ controller = [CurrentState |-> "PatrolCrawling", bHasCrawlingTarget |-> FALSE,
                           CrawlingTargetLocation |-> ZeroVector, PreviousCrawlingLocation |-> Along(x),
                           StuckTime |-> 0, Discards |-> 0]
    /\ calls = <<>>
    /\ op = [name |-> "-", DeltaTime |-> 0, requested |-> FALSE, discarded |-> FALSE]

TickCrawling ==
    \E DeltaTime \in DeltaTimes, step \in StuckSteps, planned \in StuckTargets \cup {NoDestination} :
       LET r == CrawlTick(controller, actor, DeltaTime, step, planned)
       IN  /\ controller' = r.c
           /\ actor' = r.a
           /\ op' = [name |-> "Tick", DeltaTime |-> DeltaTime, requested |-> r.requested, discarded |-> r.discarded]
           /\ UNCHANGED <<world, character, nav, surface, calls>>

ReenterPatrolCrawling ==
    /\ controller' = EnterPatrolCrawling(controller, actor)
    /\ op' = [name |-> "OnEnterState", DeltaTime |-> 0, requested |-> FALSE, discarded |-> FALSE]
    /\ UNCHANGED <<world, character, actor, nav, surface, calls>>

NextStuck ==
    \/ TickCrawling
    \/ ReenterPatrolCrawling

SpecStuck == InitStuck /\ [][NextStuck]_vars

\* Ticks keep coming for as long as the body lives.
SpecStuckFair == SpecStuck /\ WF_vars(TickCrawling)

IntendedLocation ==
    LET Direction == VSub(op'.TargetLocation, actor.Location)
    IN  VAdd(actor.Location, ScaleTo(Direction, MinOf(PatrolCrawlingSpeed * op'.DeltaTime, Size(Direction))))

\* The step being taken is a TickComponent that samples the surface at the body and finds none.
TickFindsNothing ==
    /\ op'.name = "TickComponent"
    /\ surface.CachedOwner /\ surface.bIsOnSurface
    /\ ~DetectSurface(surface, actor.Location).bFound

\* The step is a call of MoveTowardsSurfaceLocation whose path ray reports an opposing hit and
\* whose sampling at the current position finds nothing.
ObstacleFindsNothing ==
    /\ MeetsObstacle
    /\ op'.name = "MoveTowardsSurfaceLocation"
    /\ ~DetectSurface(surface, actor.Location).bFound

\* The step is a call of MoveTowardsSurfaceLocation whose path ray reports no hit and whose
\* sampling at the intended position finds nothing.
OpenPathFindsNothing ==
    /\ op'.name = "MoveTowardsSurfaceLocation"
    /\ surface.CachedOwner
    /\ RemainingSquared > AcceptanceRadius * AcceptanceRadius
    /\ ~PathRay.bBlockingHit
    /\ ~DetectSurface(surface, IntendedLocation).bFound

\* C11: whenever surface sampling finds no candidate, in TickComponent or in any branch of
\* MoveTowardsSurfaceLocation, the body is unattached afterwards and the tracked surface
\* normal is what it was.
C11_NoCandidateMeansUnattached ==
    [][ (TickFindsNothing \/ ObstacleFindsNothing \/ OpenPathFindsNothing) =>
            /\ surface'.bIsOnSurface = FALSE
            /\ surface'.CurrentSurfaceNormal = surface.CurrentSurfaceNormal ]_vars

\* The same without the obstacle branch: TickComponent and the open-path branch.
C11_NoCandidateMeansUnattached_OpenPath ==
    [][ (TickFindsNothing \/ OpenPathFindsNothing) =>
            /\ surface'.bIsOnSurface = FALSE
            /\ surface'.CurrentSurfaceNormal = surface.CurrentSurfaceNormal ]_vars


\* C12: in every state reached by a TickComponent or a movement step of the component in which
\* no surface was found, the tracked surface normal is world up (0,0,1).
C12_NormalUpAfterLoss ==
    [][ (TickFindsNothing \/ ObstacleFindsNothing \/ OpenPathFindsNothing) =>
            surface'.CurrentSurfaceNormal = UpVector ]_vars


(***************************************************************************)
(* AMonsterCharacter of the plugin                                         *)
(* (Plugins/AuraMonster/Source/AuraMonster/Private/MonsterCharacter.cpp,   *)
(* first revision in the file): surface attachment while crawling,         *)
(* specification SpecAttach.                                               *)
(***************************************************************************)
SurfaceTraceDistance == 40        \* SurfaceTraceDistance = 200.0f
CharacterAlignmentSpeed == 5      \* SurfaceAlignmentSpeed = 5.0f

\* DotProduct < SurfaceChangeThreshold (0.99) for unit normals.
SurfaceChanged(CurrentNormal, NewNormal) == 100 * Dot(CurrentNormal, NewNormal) < 99

\* The forward vector projected onto the surface, with the fallbacks of UpdateSurfaceAttachment.
ProjectedForwardOn(CurrentForward, NewSurfaceNormal) ==
    LET Projected == VSub(CurrentForward, VScale(NewSurfaceNormal, Dot(CurrentForward, NewSurfaceNormal)))
        ByRight == Cross(NewSurfaceNormal, <<0, 1, 0>>)
        ByForward == Cross(NewSurfaceNormal, ForwardVector)
    IN  IF Projected # ZeroVector THEN GetSafeNormal(Projected)
        ELSE IF ByRight # ZeroVector THEN GetSafeNormal(ByRight)
        ELSE IF ByForward # ZeroVector THEN GetSafeNormal(ByForward)
        ELSE IF 100 * Abs(NewSurfaceNormal[3]) > 99 THEN <<0, One, 0>>
        ELSE <<0, 0, One>>

\* FRotator::ZeroRotator with the yaw of the current rotation.
DefaultRotationFor(CurrentRotation) ==
    LET Level == <<CurrentRotation.X[1], CurrentRotation.X[2], 0>>
    IN  MakeFromXZ(IF Level = ZeroVector THEN VScale(ForwardVector, One) ELSE GetSafeNormal(Level), UpVector)

\* AMonsterCharacter::UpdateSurfaceAttachment on character ch and body a: what it leaves, whether
\* the trace hit, and whether SetActorRotation was called.
UpdateSurfaceAttachment(ch, a, DeltaTime) ==
    LET StartLocation == a.Location
        HitResult == LineTraceSingleByChannel(StartLocation,
                                              VAdd(StartLocation, VScale(DownVector, SurfaceTraceDistance)))
        NewSurfaceNormal == HitResult.Normal
        TargetRotation == MakeFromXZ(ProjectedForwardOn(a.Rotation.X, NewSurfaceNormal), NewSurfaceNormal)
    IN  IF HitResult.bBlockingHit
        THEN [ch |-> [ch EXCEPT !.bIsAttachedToSurface = TRUE, !.CurrentSurfaceNormal = NewSurfaceNormal],
              a |-> [a EXCEPT !.Rotation = RInterpTo(@, TargetRotation, DeltaTime, CharacterAlignmentSpeed, 1)],
              bHit |-> TRUE, SetActorRotation |-> TRUE,
              OnSurfaceTransition |-> SurfaceChanged(ch.CurrentSurfaceNormal, NewSurfaceNormal)]
        ELSE [ch |-> [ch EXCEPT !.bIsAttachedToSurface = FALSE,
                                !.CurrentSurfaceNormal =
                                    VInterpTo(@, UpVector, DeltaTime, CharacterAlignmentSpeed, 2)],
              a |-> [a EXCEPT !.Rotation =
                                  RInterpTo(@, DefaultRotationFor(@), DeltaTime, CharacterAlignmentSpeed, 2)],
              bHit |-> FALSE, SetActorRotation |-> TRUE, OnSurfaceTransition |-> FALSE]

\* AMonsterCharacter::Tick
TickCharacter(ch, a, DeltaTime) ==
    IF ch.CurrentBehaviorState = "PatrolCrawling"
    THEN UpdateSurfaceAttachment(ch, a, DeltaTime)
    ELSE [ch |-> ch, a |-> a, bHit |-> FALSE, SetActorRotation |-> FALSE, OnSurfaceTransition |-> FALSE]

\* Surroundings of the crawling body: a floor beneath it, a wall ahead and below it, walls ahead
\* of and behind it, each present or not.
WallBelowAhead == [Distance |-> 30, Normal |-> <<-1, 0, 0>>]
AttachSurfaces ==
    [k \in {DownVector, <<1, 0, -1>>, ForwardVector, <<-1, 0, 0>>} |->
        IF k = DownVector THEN Floor
        ELSE IF k = <<1, 0, -1>> THEN WallBelowAhead
        ELSE IF k = ForwardVector THEN WallAt(30)
        ELSE [Distance |-> 30, Normal |-> ForwardVector]]
AttachLevels == { [k \in K |-> AttachSurfaces[k]] : K \in SUBSET (DOMAIN AttachSurfaces) }

InitAttach ==
    /\ world \in AttachLevels
    /\ controller = Unused /\ nav = Unused /\ surface = Unused
    /\ character = [CurrentBehaviorState |-> "Idle", CurrentSurfaceNormal |-> UpVector,
                    bIsAttachedToSurface |-> FALSE]
    /\ actor = [Location |-> ZeroVector, Rotation |-> MakeFromXZ(VScale(ForwardVector, One), UpVector)]
    /\ calls = <<>>
    /\ op = [name |-> "-", DeltaTime |-> 0, bHit |-> FALSE, SetActorRotation |-> FALSE]

CharacterTick ==
    \E DeltaTime \in DeltaTimes :
       LET r == TickCharacter(character, actor, DeltaTime)
       IN  /\ character' = r.ch
           /\ actor' = r.a
           /\ op' = [name |-> "Tick", DeltaTime |-> DeltaTime, bHit |-> r.bHit,
                     SetActorRotation |-> r.SetActorRotation]
           /\ UNCHANGED <<world, controller, nav, surface, calls>>

\* AMonsterCharacter::SetBehaviorState, as the controller calls it on a transition.
CharacterSetBehaviorState ==
    \E NewState \in {"Idle", "PatrolStanding", "PatrolCrawling"} :
       /\ character.CurrentBehaviorState # NewState
       /\ character' = [character EXCEPT !.CurrentBehaviorState = NewState]
       /\ op' = [name |-> "SetBehaviorState", DeltaTime |-> 0, bHit |-> FALSE, SetActorRotation |-> FALSE]
       /\ UNCHANGED <<world, controller, actor, nav, surface, calls>>

\* The crawling controller turns the body toward a destination it has found
\* (SetActorRotation(Direction.Rotation()) in ExecutePatrolCrawlingBehavior).
ControllerOrients ==
    /\ character.CurrentBehaviorState = "PatrolCrawling"
    /\ \E d \in CrawlDirections, roll \in Rolls :
          LET f == CrawlAttempt(actor.Location, d, roll)
              Direction == VSub(f.Location, actor.Location)
          IN  /\ f.bFound
              /\ GetSafeNormal(Direction) # ZeroVector
              /\ actor' = [actor EXCEPT !.Rotation = Rotation(Direction)]
    /\ op' = [name |-> "SetActorRotation", DeltaTime |-> 0, bHit |-> FALSE, SetActorRotation |-> TRUE]
    /\ UNCHANGED <<world, controller, character, nav, surface, calls>>

NextAttach ==
    \/ CharacterTick
    \/ CharacterSetBehaviorState
    \/ ControllerOrients

SpecAttach == InitAttach /\ [][NextAttach]_vars

\* C16: when no surface is found during a tick, the body's orientation is left as it was and no
\* rotation is written in that step (here: the tick of the crawling character).
C16_OrientationKeptWithoutSurface ==
    [][ ( /\ op'.name = "Tick"
          /\ character.CurrentBehaviorState = "PatrolCrawling"
          /\ ~op'.bHit )
        => (actor'.Rotation = actor.Rotation /\ ~op'.SetActorRotation) ]_vars

\* The part of the same statement that concerns the axes of the body alone.
C16_AxesKeptWithoutSurface ==
    [][ ( /\ op'.name = "Tick"
          /\ character.CurrentBehaviorState = "PatrolCrawling"
          /\ ~op'.bHit )
        => actor'.Rotation.X = actor.Rotation.X ]_vars


\* The same statement for the surface component (checked on SpecSurf): a tick or a move whose
\* detection finds nothing leaves the rotation of the body as it was.
C16_ComponentKeepsOrientation ==
    [][ (TickFindsNothing \/ ObstacleFindsNothing \/ OpenPathFindsNothing)
        => actor'.Rotation = actor.Rotation ]_vars


(***************************************************************************)
(* The controller crawling among surfaces, with the ray queries of each    *)
(* tick counted: specification SpecCrawl.                                  *)
(***************************************************************************)
\* An attempt that repeats a blocked path check.
CrawlAttemptRays_PathTwice(CurrentLocation, RandomDirection, roll) ==
    LET Distance == RandRange(MinCrawlDistance, PatrolRange, roll)
        TargetPoint == VAdd(CurrentLocation, ScaleTo(RandomDirection, Distance))
        Half == CrawlSurfaceDetectionDistance \div 2
        HitResult == LineTraceSingleByChannel(VAdd(TargetPoint, ScaleTo(RandomDirection, Half)),
                                              VSub(TargetPoint, ScaleTo(RandomDirection, Half)))
        SurfaceLocation == VAdd(HitResult.Location, VScale(HitResult.Normal, CrawlSurfaceOffset))
    IN  IF ~HitResult.bBlockingHit THEN 2
        ELSE IF ~LineTraceSingleByChannel(CurrentLocation, SurfaceLocation).bBlockingHit THEN 2
        ELSE 4

\* The number of LineTraceSingleByChannel calls of one attempt of FindCrawlableDestination:
\* the surface trace, the path check when the surface trace hit, and the direct trace unless
\* the attempt returned before it.
CrawlAttemptRays(CurrentLocation, RandomDirection, roll) ==
    LET Distance == RandRange(MinCrawlDistance, PatrolRange, roll)
        TargetPoint == VAdd(CurrentLocation, ScaleTo(RandomDirection, Distance))
        Half == CrawlSurfaceDetectionDistance \div 2
        HitResult == LineTraceSingleByChannel(VAdd(TargetPoint, ScaleTo(RandomDirection, Half)),
                                              VSub(TargetPoint, ScaleTo(RandomDirection, Half)))
        SurfaceLocation == VAdd(HitResult.Location, VScale(HitResult.Normal, CrawlSurfaceOffset))
    IN  IF ~HitResult.bBlockingHit THEN 2
        ELSE IF ~LineTraceSingleByChannel(CurrentLocation, SurfaceLocation).bBlockingHit THEN 2
        ELSE 3

\* The totals of rays cast by n attempts in a row that found nothing, each casting one of FailRays.
RECURSIVE RaysAfterFailures(_, _)
RaysAfterFailures(n, FailRays) ==
    IF n = 0 THEN {0}
    ELSE { b + f : b \in RaysAfterFailures(n - 1, FailRays), f \in FailRays }

\* FindCrawlableDestination with its rays counted: every result it can return, with the number of
\* rays cast before returning it.
FindCrawlableDestinationCounted(w) ==
    IF ~w.c.ControlledMonster
    THEN {[f |-> [bFound |-> FALSE, Location |-> ZeroVector, Normal |-> ZeroVector], Rays |-> 0]}
    ELSE
    LET CurrentLocation == w.a.Location
        Draws == { [t |-> CrawlAttempt(CurrentLocation, d, r), Rays |-> CrawlAttemptRays(CurrentLocation, d, r)] :
                     d \in IF w.c.bIsTransitioningBetweenSurfaces THEN TransitionDirections ELSE CrawlDirections,
                     r \in Rolls }
        FailRays == { x.Rays : x \in { y \in Draws : ~y.t.bFound } }
    IN  { [f |-> x.t, Rays |-> b + x.Rays] :
             x \in { y \in Draws : y.t.bFound },
             b \in UNION { RaysAfterFailures(n, FailRays) : n \in 0..(MaxAttempts - 1) } }
        \cup { [f |-> CrawlFallback(CurrentLocation), Rays |-> b + 1] :
                 b \in RaysAfterFailures(MaxAttempts, FailRays) }

\* The rays of the loop over FallbackTraceDirections, from index i on: it stops at the first hit.
RECURSIVE MultiTraceRays(_, _, _)
MultiTraceRays(NextPosition, TraceDistance, i) ==
    IF i > Len(FallbackTraceDirections) THEN 0
    ELSE LET TraceDir == FallbackTraceDirections[i]
             HitResult == LineTraceSingleByChannel(VAdd(NextPosition, VScale(TraceDir, TraceDistance)),
                                                   VSub(NextPosition, VScale(TraceDir, TraceDistance)))
         IN  IF HitResult.bBlockingHit THEN 1
             ELSE 1 + MultiTraceRays(NextPosition, TraceDistance, i + 1)

\* The rays of the movement step: the trace along the current normal, then the fallback traces.
CrawlStepRays(w, DeltaTime) ==
    LET CurrentLocation == w.a.Location
        MovementDistance == GetMovementSpeedForState("PatrolCrawling") * DeltaTime
        NextPosition == VAdd(CurrentLocation,
                             ScaleTo(VSub(w.c.CrawlingDestination, CurrentLocation), MovementDistance))
        TraceDistance == CrawlSurfaceDetectionDistance \div 2
        SurfaceCheckNormal == w.c.CurrentSurfaceNormal
        HitResult == LineTraceSingleByChannel(VAdd(NextPosition, VScale(SurfaceCheckNormal, TraceDistance)),
                                              VSub(NextPosition, VScale(SurfaceCheckNormal, TraceDistance)))
    IN  IF HitResult.bBlockingHit THEN 1
        ELSE 1 + MultiTraceRays(NextPosition, TraceDistance, 1)

\* The outcome x of SelectCrawlDestination is the one that follows from the planner's result f.
SelectedBy(w, f, x) ==
    IF f.bFound
    THEN /\ x.c.bIsMovingToCrawlDestination
         /\ x.c.CrawlingDestination = f.Location
         /\ x.c.TargetSurfaceNormal = f.Normal
    ELSE x = w

MaxOfSet(S) == CHOOSE x \in S : \A y \in S : y <= x

\* CrawlOn with the rays of the step counted: for each outcome, the most rays cast in reaching it.
CrawlOnCounted(w, DeltaTime) ==
    IF w.c.bIsMovingToCrawlDestination
    THEN IF HasReachedCrawlDestination(w)
         THEN { [w |-> x, Rays |-> 0, Planned |-> FALSE, Stepped |-> FALSE] : x \in CrawlOn(w, DeltaTime) }
         ELSE { [w |-> x, Rays |-> CrawlStepRays(w, DeltaTime), Planned |-> FALSE, Stepped |-> TRUE] :
                  x \in CrawlOn(w, DeltaTime) }
    ELSE LET Counted == FindCrawlableDestinationCounted(w)
         IN  { [w |-> x, Planned |-> TRUE, Stepped |-> FALSE,
                Rays |-> MaxOfSet({ p.Rays : p \in { q \in Counted : SelectedBy(w, q.f, x) } })] :
                 x \in CrawlOn(w, DeltaTime) }

\* A tick whose pause ends with the first tick after the arrival, whatever the duration drawn.
ExecutePatrolCrawlingCounted_NoPause(w, DeltaTime) ==
    IF ~w.c.ControlledMonster THEN { [w |-> w, Rays |-> 0, Planned |-> FALSE, Stepped |-> FALSE] }
    ELSE LET w1 == UpdateSurfaceAlignment(w, DeltaTime)
         IN  IF w1.c.bIsStoppedAtCrawlDestination
             THEN CrawlOnCounted([w1 EXCEPT !.c.CurrentCrawlStopTime = 0,
                                            !.c.bIsStoppedAtCrawlDestination = FALSE,
                                            !.c.bIsMovingToCrawlDestination = FALSE], DeltaTime)
             ELSE CrawlOnCounted(w1, DeltaTime)

\* A tick that forgets the surface transition when the pause is over.
ExecutePatrolCrawlingCounted_Forgetful(w, DeltaTime) ==
    IF ~w.c.ControlledMonster THEN { [w |-> w, Rays |-> 0, Planned |-> FALSE, Stepped |-> FALSE] }
    ELSE LET w1 == UpdateSurfaceAlignment(w, DeltaTime)
         IN  IF w1.c.bIsStoppedAtCrawlDestination
             THEN LET w2 == [w1 EXCEPT !.c.CurrentCrawlStopTime = @ + DeltaTime]
                  IN  IF w2.c.CurrentCrawlStopTime >= w2.c.TargetCrawlStopDuration
                      THEN CrawlOnCounted([w2 EXCEPT !.c.bIsStoppedAtCrawlDestination = FALSE,
                                                     !.c.CurrentCrawlStopTime = 0,
                                                     !.c.bIsMovingToCrawlDestination = FALSE,
                                                     !.c.bIsTransitioningBetweenSurfaces = FALSE], DeltaTime)
                      ELSE { [w |-> w2, Rays |-> 0, Planned |-> FALSE, Stepped |-> FALSE] }
             ELSE CrawlOnCounted(w1, DeltaTime)

\* ExecutePatrolCrawlingBehavior with the rays of the tick counted.
ExecutePatrolCrawlingCounted(w, DeltaTime) ==
    IF ~w.c.ControlledMonster THEN { [w |-> w, Rays |-> 0, Planned |-> FALSE, Stepped |-> FALSE] }
    ELSE LET w1 == UpdateSurfaceAlignment(w, DeltaTime)
         IN  IF w1.c.bIsStoppedAtCrawlDestination
             THEN LET w2 == [w1 EXCEPT !.c.CurrentCrawlStopTime = @ + DeltaTime]
                  IN  IF w2.c.CurrentCrawlStopTime >= w2.c.TargetCrawlStopDuration
                      THEN CrawlOnCounted([w2 EXCEPT !.c.bIsStoppedAtCrawlDestination = FALSE,
                                                     !.c.CurrentCrawlStopTime = 0,
                                                     !.c.bIsMovingToCrawlDestination = FALSE], DeltaTime)
                      ELSE { [w |-> w2, Rays |-> 0, Planned |-> FALSE, Stepped |-> FALSE] }
             ELSE CrawlOnCounted(w1, DeltaTime)

\* AMonsterAIController::Tick with the rays of the tick counted.
TickControllerCounted(w, DeltaTime) ==
    IF w.c.CurrentState = "PatrolCrawling"
    THEN ExecutePatrolCrawlingCounted(w, DeltaTime)
    ELSE { [w |-> x, Rays |-> 0, Planned |-> FALSE, Stepped |-> FALSE] : x \in TickController(w, DeltaTime) }

\* Surfaces of the levels crawled: a floor beneath, a wall ahead and below, a wall ahead, a surface
\* seen from beyond along the forward axis, and something across the way to it.
CrawlSurfaces ==
    [k \in {DownVector, <<1, 0, -1>>, ForwardVector, <<-1, 0, 0>>, <<1, 1, 0>>} |->
        IF k = DownVector THEN [Distance |-> 30, Normal |-> UpVector]
        ELSE IF k = <<1, 0, -1>> THEN WallBelowAhead
        ELSE IF k = ForwardVector THEN [Distance |-> 100, Normal |-> <<-1, 0, 0>>]
        ELSE IF k = <<-1, 0, 0>> THEN [Distance |-> 250, Normal |-> <<0, 1, 0>>]
        ELSE [Distance |-> 5, Normal |-> <<0, -1, 0>>]]
CrawlLevels ==
    { [k \in K |-> CrawlSurfaces[k]] :
        K \in { {}, {DownVector}, {<<1, 0, -1>>}, {ForwardVector}, {DownVector, ForwardVector},
                {<<-1, 0, 0>>, <<1, 1, 0>>}, {<<-1, 0, 0>>} } }

\* The controller and its character as construction leaves them, possessed and not yet begun.
CrawlStart ==
    [c |-> [bBegunPlay |-> FALSE,
            ControlledMonster |-> FALSE,
            CachedNavSystem |-> FALSE,
            CachedPathFollowingComp |-> FALSE,
            CurrentState |-> "Idle",
            MinIdleDuration |-> 1,
            MaxIdleDuration |-> 1,
            PatrolTransitionChance |-> ChanceDen,
            SurfaceTransitionChance |-> 1,
            BreathingCycleDuration |-> BreathingCycleDuration,
            CurrentIdleTime |-> 0,
            TargetIdleDuration |-> 1,
            TimeSinceLastSubtleMovement |-> 0,
            NextSubtleMovementTime |-> 0,
            BreathingCycleTime |-> 0,
            CurrentStopTime |-> 0,
            TargetStopDuration |-> 0,
            bIsStoppedAtDestination |-> FALSE,
            CurrentCrawlStopTime |-> 0,
            TargetCrawlStopDuration |-> 0,
            bIsStoppedAtCrawlDestination |-> FALSE,
            bIsMovingToCrawlDestination |-> FALSE,
            bIsTransitioningBetweenSurfaces |-> FALSE,
            CrawlingDestination |-> ZeroVector,
            CurrentSurfaceNormal |-> UpVector,
            TargetSurfaceNormal |-> UpVector],
     m |-> [bBegunPlay |-> FALSE, bPossessed |-> TRUE, CurrentBehaviorState |-> "Idle",
            MaxWalkSpeed |-> 600 \div 5],
     a |-> [Location |-> ZeroVector, Rotation |-> MakeFromXZ(VScale(ForwardVector, One), UpVector)],
     n |-> [bNavSystem |-> TRUE, Status |-> "Idle"],
     log |-> <<>>]

MaxCrawlCoord == 40          \* ticks are followed while the body is within MaxCrawlCoord of the origin
InCrawlLevel(p) == \A i \in 1..3 : Abs(p[i]) <= MaxCrawlCoord

MaxCrawlTransitions == 2     \* transitions requested from outside while crawling is followed

\* The last operation, its ray count, and the number of transitions requested so far.
NoCrawlOp == [name |-> "-", DeltaTime |-> 0, State |-> None, Rays |-> 0, Planned |-> FALSE, Stepped |-> FALSE,
              Transitions |-> 0]

\* The state after both BeginPlays and a transition to PatrolCrawling.
InitCrawl ==
    /\ world \in CrawlLevels
    /\ surface = Unused
    /\ calls = <<>>
    /\ op = NoCrawlOp
    /\ \E p \in Chances :
       \E w1 \in BeginPlayController(BeginPlayCharacter([CrawlStart EXCEPT !.c.SurfaceTransitionChance = p])) :
          \E w2 \in TransitionToState(w1, "PatrolCrawling") :
             /\ controller = w2.c
             /\ character = w2.m
             /\ actor = w2.a
             /\ nav = w2.n

\* A tick of the crawling controller (the ticks of the other states are those of Spec).
CrawlingTick ==
    /\ controller.CurrentState = "PatrolCrawling"
    /\ InCrawlLevel(actor.Location)
    /\ \E DeltaTime \in DeltaTimes :
          \E r \in TickControllerCounted(Bundle, DeltaTime) :
             Becomes(r.w, [name |-> "Tick", DeltaTime |-> DeltaTime, State |-> None,
                           Rays |-> r.Rays, Planned |-> r.Planned, Stepped |-> r.Stepped,
                           Transitions |-> op.Transitions])

CrawlingTransitionToState ==
    /\ op.Transitions < MaxCrawlTransitions
    /\ \E NewState \in States :
          \E w2 \in TransitionToState(Bundle, NewState) :
             Becomes(w2, [NoCrawlOp EXCEPT !.name = "TransitionToState", !.State = NewState,
                                           !.Transitions = op.Transitions + 1])

NextCrawl ==
    \/ CrawlingTick
    \/ CrawlingTransitionToState

SpecCrawl == InitCrawl /\ [][NextCrawl]_vars


(***************************************************************************)
(* Properties of the crawling controller (specification SpecCrawl).        *)
(***************************************************************************)
\* C13: every PatrolCrawling tick casts a number of rays bounded by a constant that does not
\* depend on the world: the planner at most MaxAttempts attempts of at most three rays each plus
\* one fallback probe, a movement step at most one ray plus six fallback rays, and a tick that
\* neither plans nor steps none.  (The tick ends: its loops run MaxAttempts and six times.)
C13_BoundedRayQueries ==
    [][ (op'.name = "Tick" /\ controller.CurrentState = "PatrolCrawling")
        => /\ op'.Rays <= MaxAttempts * 3 + 1
           /\ op'.Stepped => op'.Rays <= 1 + 6
           /\ (~op'.Planned /\ ~op'.Stepped) => op'.Rays = 0
           /\ ~(op'.Planned /\ op'.Stepped) ]_vars

\* A tick whose planner cast as many rays as it can: every attempt three, and the fallback probe.
C13_Witness ==
    /\ op.name = "Tick"
    /\ op.Planned
    /\ op.Rays = MaxAttempts * 3 + 1

\* A movement step that cast the ray along the normal and all six fallback rays.
C13_FullStep ==
    /\ op.name = "Tick"
    /\ op.Stepped
    /\ op.Rays = 1 + 6


\* The planner ran in the step and reported failure: the tick selected no destination.
PlannerFailed == op'.name = "Tick" /\ op'.Planned /\ ~controller'.bIsMovingToCrawlDestination

\* Some draw of direction and distance finds nothing from the current position.
SomeAttemptFails ==
    \E d \in (IF controller.bIsTransitioningBetweenSurfaces THEN TransitionDirections ELSE CrawlDirections),
       r \in Rolls : ~CrawlAttempt(actor.Location, d, r).bFound

\* The probe from 100 UU above the body to 500 UU below it meets nothing.
StraightDownMisses ==
    ~LineTraceSingleByChannel(VAdd(actor.Location, <<0, 0, FallbackTraceUpDistance>>),
                              VSub(actor.Location, <<0, 0, FallbackTraceDownDistance>>)).bBlockingHit

ArrivesAtCrawlDestination ==
    /\ op'.name = "Tick"
    /\ controller.CurrentState = "PatrolCrawling"
    /\ controller.ControlledMonster
    /\ controller.bIsMovingToCrawlDestination
    /\ ~controller.bIsStoppedAtCrawlDestination
    /\ SizeSquared(VSub(actor.Location, controller.CrawlingDestination))
          <= PatrolAcceptanceRadius * PatrolAcceptanceRadius

\* C17: the tick in which the crawling body is found within the acceptance radius of its
\* destination starts the pause: the stopped flag is set, the moving flag cleared, the stop timer
\* 0, the stop duration drawn from [MinStopDuration, MaxStopDuration]; the body is not moved in
\* that tick; and the surface transition flag is set exactly when the roll of that tick is below
\* SurfaceTransitionChance.
C17_ArrivalStartsPause ==
    [][ ArrivesAtCrawlDestination
        => /\ controller'.bIsStoppedAtCrawlDestination
           /\ ~controller'.bIsMovingToCrawlDestination
           /\ controller'.CurrentCrawlStopTime = 0
           /\ controller'.TargetCrawlStopDuration >= MinStopDuration
           /\ controller'.TargetCrawlStopDuration <= MaxStopDuration
           /\ actor'.Location = actor.Location
           /\ op'.Rays = 0
           /\ \E i \in DOMAIN calls' :
                 /\ calls'[i].f = "FRand"
                 /\ \A j \in DOMAIN calls' : calls'[j].f = "FRand" => j = i
                 /\ controller'.bIsTransitioningBetweenSurfaces
                       <=> RollBelow(calls'[i].v, controller.SurfaceTransitionChance) ]_vars

\* The body has arrived, the roll was not below the chance set, and the flag is not set.
C17_Witness ==
    /\ op.name = "Tick"
    /\ controller.bIsStoppedAtCrawlDestination
    /\ controller.CurrentCrawlStopTime = 0
    /\ controller.SurfaceTransitionChance = 1
    /\ \E i \in DOMAIN calls : calls[i].f = "FRand" /\ calls[i].v = 1
    /\ ~controller.bIsTransitioningBetweenSurfaces

\* The body has arrived and the flag is set.
C17_ArrivedTransitioning ==
    /\ op.name = "Tick"
    /\ controller.bIsStoppedAtCrawlDestination
    /\ controller.CurrentCrawlStopTime = 0
    /\ controller.bIsTransitioningBetweenSurfaces


\* C19: immediately after the controller has left PatrolCrawling, for Idle or PatrolStanding, it
\* holds no crawl destination: the moving and the stopped flag are both false.
C19_NoDestinationAfterLeaving ==
    [][ (controller.CurrentState = "PatrolCrawling" /\ controller'.CurrentState # "PatrolCrawling")
        => (~controller'.bIsMovingToCrawlDestination /\ ~controller'.bIsStoppedAtCrawlDestination) ]_vars

\* What the transitions do keep: every entry into PatrolCrawling clears both flags, and no step
\* outside PatrolCrawling changes them or moves the body.
C19_ClearedOnEntry ==
    [][ /\ (controller.CurrentState # "PatrolCrawling" /\ controller'.CurrentState = "PatrolCrawling")
           => (~controller'.bIsMovingToCrawlDestination /\ ~controller'.bIsStoppedAtCrawlDestination)
        /\ (controller.CurrentState # "PatrolCrawling" /\ controller'.CurrentState # "PatrolCrawling")
           => /\ controller'.bIsMovingToCrawlDestination = controller.bIsMovingToCrawlDestination
              /\ controller'.bIsStoppedAtCrawlDestination = controller.bIsStoppedAtCrawlDestination
              /\ controller'.CrawlingDestination = controller.CrawlingDestination ]_vars


\* The step takes the controller into PatrolCrawling.
EntersPatrolCrawling ==
    /\ controller.CurrentState # "PatrolCrawling"
    /\ controller'.CurrentState = "PatrolCrawling"

\* What the probe from 100 UU above the body to 500 UU below it reports after the step: the normal
\* of the surface it meets, or world up.
ProbedNormal ==
    LET Hit == LineTraceSingleByChannel(VAdd(actor'.Location, <<0, 0, FallbackTraceUpDistance>>),
                                        VSub(actor'.Location, <<0, 0, FallbackTraceDownDistance>>))
    IN  IF Hit.bBlockingHit THEN Hit.Normal ELSE UpVector

C21_EnteredOverFloor ==
    /\ op.name = "TransitionToState"
    /\ op.State = "PatrolCrawling"
    /\ controller.CurrentState = "PatrolCrawling"
    /\ actor.Location # ZeroVector
    /\ DownVector \in DOMAIN world
    /\ controller.CurrentSurfaceNormal = UpVector


(***************************************************************************)
(* Scenario B: crawling where every ray reports a surface 50 UU below the  *)
(* point it starts from, with normal (0,0,1): specification SpecScenarioB. *)
(* The controller crawls as in SpecCrawl; beside it the component of        *)
(* part_000 plans from the body's position and is driven to what it planned.*)
(***************************************************************************)
SignTriples == {<<x, y, z>> : x \in {-1, 0, 1}, y \in {-1, 0, 1}, z \in {-1, 0, 1}}
AlwaysBelow == [k \in SignTriples |-> [Below |-> 10, Normal |-> UpVector]]

\* The operations of the component in the scenario, with what they return and the location planned.
ComponentOp(name, DeltaTime, ret, Location) ==
    [name |-> name, DeltaTime |-> DeltaTime, State |-> None, Rays |-> 0, Planned |-> FALSE,
     Stepped |-> FALSE, Transitions |-> op.Transitions, ret |-> ret, Location |-> Location]

\* The state after the BeginPlays of controller, character and component and a transition to
\* PatrolCrawling.
InitScenarioB ==
    /\ world = AlwaysBelow
    /\ calls = <<>>
    /\ op = NoCrawlOp
    /\ \E p \in Chances :
       \E w1 \in BeginPlayController(BeginPlayCharacter([CrawlStart EXCEPT !.c.SurfaceTransitionChance = p])) :
          \E w2 \in TransitionToState(w1, "PatrolCrawling") :
             /\ controller = w2.c
             /\ character = w2.m
             /\ actor = w2.a
             /\ nav = w2.n
             /\ surface = BeginPlayComponent(
                              [s |-> [CachedOwner |-> FALSE, CurrentSurfaceNormal |-> UpVector,
                                      bIsOnSurface |-> FALSE],
                               a |-> w2.a]).s

\* The component is asked for a destination around the body.
ScenarioPlan ==
    /\ InCrawlLevel(actor.Location)
    /\ \E draws \in [1..MaxPlanAttempts -> [dir : BiasedDirections(surface), roll : Rolls]] :
          LET r == GetRandomSurfaceLocation(surface, actor.Location, PatrolRange, draws)
          IN  op' = ComponentOp("GetRandomSurfaceLocation", 0, r.ret, r.Location)
    /\ UNCHANGED <<world, controller, character, actor, nav, surface, calls>>

\* The component is driven toward the destination it planned, at the crawling speed.
ScenarioMove ==
    /\ op.name \in {"GetRandomSurfaceLocation", "MoveTowardsSurfaceLocation_Near"}
    /\ op.ret
    /\ InCrawlLevel(actor.Location)
    /\ \E DeltaTime \in DeltaTimes :
          LET r == MoveTowardsSurfaceLocation_Near(SurfBundle, op.Location, DeltaTime, PatrolCrawlingSpeed)
          IN  /\ surface' = r.b.s
              /\ actor' = r.b.a
              /\ op' = ComponentOp("MoveTowardsSurfaceLocation_Near", DeltaTime, r.ret, op.Location)
    /\ UNCHANGED <<world, controller, character, nav, calls>>

NextScenarioB ==
    \/ CrawlingTick
    \/ CrawlingTransitionToState
    \/ ScenarioPlan
    \/ ScenarioMove

SpecScenarioB == InitScenarioB /\ [][NextScenarioB]_vars

\* The body is within the acceptance radius of the destination the controller holds.
AtCrawlDestination ==
    SizeSquared(VSub(actor.Location, controller.CrawlingDestination))
       <= PatrolAcceptanceRadius * PatrolAcceptanceRadius

\* C25: in scenario B the planner always succeeds and the body comes within the acceptance radius
\* of the destination within a bounded number of ticks.  For the controller: every tick that runs
\* FindCrawlableDestination takes a destination, a destination held is within
\* PatrolAcceptanceRadius of the body from the tick that chose it, and the next tick starts the
\* pause there.  For the component: GetRandomSurfaceLocation returns true, and the first
\* MoveTowardsSurfaceLocation toward what it returned reports arrival, the body not moved.
C25_ScenarioB_Arrives ==
    /\ [](controller.bIsMovingToCrawlDestination => AtCrawlDestination)
    /\ [][ /\ (op'.name = "Tick" /\ op'.Planned) => controller'.bIsMovingToCrawlDestination
           /\ (op'.name = "Tick" /\ controller.CurrentState = "PatrolCrawling"
                 /\ controller.bIsMovingToCrawlDestination)
              => (controller'.bIsStoppedAtCrawlDestination /\ actor'.Location = actor.Location)
           /\ op'.name = "GetRandomSurfaceLocation" => op'.ret
           /\ op'.name = "MoveTowardsSurfaceLocation_Near"
              => (~op'.ret /\ actor'.Location = actor.Location
                  /\ SizeSquared(VSub(actor'.Location, op'.Location))
                        <= AcceptanceRadius * AcceptanceRadius) ]_vars

\* The controller has planned, arrived and paused, and has planned again after the pause.
C25_Witness ==
    /\ op.name = "Tick"
    /\ op.Planned
    /\ controller.bIsMovingToCrawlDestination
    /\ controller.TargetCrawlStopDuration > 0
    /\ AtCrawlDestination

\* The component has reported arrival at what it planned.
C25_ComponentArrived ==
    /\ op.name = "MoveTowardsSurfaceLocation_Near"
    /\ ~op.ret


(***************************************************************************)
(* The character and its controller, in the revision of Source/ and in the *)
(* revision of Plugins/: specification SpecSync.                           *)
(***************************************************************************)
\* AMonsterCharacter::SetBehaviorState of Plugins/: the controller is not told.
SetBehaviorState_Plugin(w, NewState) ==
    IF w.m.CurrentBehaviorState # NewState
    THEN LET OldState == w.m.CurrentBehaviorState
             w1 == [w EXCEPT !.m.CurrentBehaviorState = NewState,
                             !.m.MaxWalkSpeed = GetMovementSpeedForState(NewState)]
         IN  Called(w1, "OnBehaviorStateChanged", OldState, NewState)
    ELSE w

\* AMonsterAIController::OnEnterState_Implementation of Plugins/.
OnEnterState_Plugin(w, NewState) ==
    LET e == Called(w, "OnEnterState", None, NewState)
    IN  IF NewState = "Idle"
        THEN { [e EXCEPT !.c.BreathingCycleDuration =
                             IF @ <= 0 THEN DefaultBreathingCycleDuration ELSE @,
                         !.c.CurrentIdleTime = 0,
                         !.c.TargetIdleDuration =
                             GetValidatedRandomRange(e.c.MinIdleDuration, e.c.MaxIdleDuration, r1),
                         !.c.TimeSinceLastSubtleMovement = 0,
                         !.c.NextSubtleMovementTime =
                             GetValidatedRandomRange(MinSubtleMovementInterval, MaxSubtleMovementInterval, r2),
                         !.c.BreathingCycleTime = 0]
               : r1 \in Rolls, r2 \in Rolls }
        ELSE { [e EXCEPT !.c.CurrentStopTime = 0,
                         !.c.TargetStopDuration = 0,
                         !.c.bIsStoppedAtDestination = FALSE] }

\* AMonsterAIController::TransitionToState of Plugins/.
TransitionToState_Plugin(w, NewState) ==
    IF w.c.CurrentState # NewState
    THEN LET w1 == OnExitState(w, w.c.CurrentState)
             w2 == [w1 EXCEPT !.c.CurrentState = NewState]
             w3 == IF w2.c.ControlledMonster THEN SetBehaviorState_Plugin(w2, NewState) ELSE w2
         IN  OnEnterState_Plugin(w3, NewState)
    ELSE {w}

\* AMonsterAIController::BeginPlay of Plugins/.
BeginPlayController_Plugin(w) ==
    UNION { LET w1 == [w EXCEPT !.c.bBegunPlay = TRUE,
                                !.c.ControlledMonster = w.m.bPossessed,
                                !.c.CachedNavSystem = w.n.bNavSystem,
                                !.c.CachedPathFollowingComp = TRUE,
                                !.c.NextSubtleMovementTime =
                                    GetValidatedRandomRange(MinSubtleMovementInterval,
                                                            MaxSubtleMovementInterval, r)]
            IN  IF w1.c.ControlledMonster THEN TransitionToState_Plugin(w1, "Idle") ELSE {w1}
            : r \in Rolls }

\* The two revisions of the controller and its character that the repository holds.
Revisions == {"Source", "Plugin"}

SyncOp(name, NewState) == [name |-> name, DeltaTime |-> 0, State |-> NewState, Revision |-> op.Revision]

\* The controller and its character as constructed, the character possessed, neither begun.  The
\* revision of Source/ declares CurrentState EditAnywhere: its BeginPlay starts from any state.
InitSync ==
    /\ world = OpenSpace
    /\ surface = Unused
    /\ calls = <<>>
    /\ \E v \in Revisions : op = [name |-> "-", DeltaTime |-> 0, State |-> None, Revision |-> v]
    /\ \E s \in States :
          /\ op.Revision = "Plugin" => s = "Idle"
          /\ controller = [CrawlStart.c EXCEPT !.CurrentState = s]
    /\ character = CrawlStart.m
    /\ actor = CrawlStart.a
    /\ nav = CrawlStart.n

SyncBeginPlay ==
    /\ op.Revision = "Source"
    /\ ~controller.bBegunPlay
    /\ \E w2 \in BeginPlayController(Bundle) : Becomes(w2, SyncOp("BeginPlay", None))

SyncBeginPlay_Plugin ==
    /\ op.Revision = "Plugin"
    /\ ~controller.bBegunPlay
    /\ \E w2 \in BeginPlayController_Plugin(Bundle) : Becomes(w2, SyncOp("BeginPlay", None))

SyncCharacterBeginPlay ==
    /\ ~character.bBegunPlay
    /\ Becomes(BeginPlayCharacter(Bundle), SyncOp("CharacterBeginPlay", None))

SyncTransitionToState ==
    /\ op.Revision = "Source"
    /\ \E NewState \in States :
          \E w2 \in TransitionToState(Bundle, NewState) : Becomes(w2, SyncOp("TransitionToState", NewState))

SyncTransitionToState_Plugin ==
    /\ op.Revision = "Plugin"
    /\ \E NewState \in States :
          \E w2 \in TransitionToState_Plugin(Bundle, NewState) :
             Becomes(w2, SyncOp("TransitionToState", NewState))

SyncSetBehaviorState ==
    /\ op.Revision = "Source"
    /\ \E NewState \in States :
          \E w2 \in SetBehaviorState(Bundle, NewState) : Becomes(w2, SyncOp("SetBehaviorState", NewState))

SyncSetBehaviorState_Plugin ==
    /\ op.Revision = "Plugin"
    /\ \E NewState \in States :
          Becomes(SetBehaviorState_Plugin(Bundle, NewState), SyncOp("SetBehaviorState", NewState))

NextSync ==
    \/ SyncBeginPlay
    \/ SyncBeginPlay_Plugin
    \/ SyncCharacterBeginPlay
    \/ SyncTransitionToState
    \/ SyncTransitionToState_Plugin
    \/ SyncSetBehaviorState
    \/ SyncSetBehaviorState_Plugin

SpecSync == InitSync /\ [][NextSync]_vars

\* C23: once the controller has begun play with its character, the character's behaviour state is
\* the controller's current state, after any sequence of SetBehaviorState and TransitionToState.
C23_StatesSynchronized ==
    (controller.bBegunPlay /\ controller.ControlledMonster)
       => character.CurrentBehaviorState = controller.CurrentState

\* The same for the revision of Source/ alone.
C23_StatesSynchronized_Source ==
    (op.Revision = "Source" /\ controller.bBegunPlay /\ controller.ControlledMonster)
       => character.CurrentBehaviorState = controller.CurrentState

\* In the revision of Source/, SetBehaviorState has taken the controller along.
C23_Witness_Source ==
    /\ op.Revision = "Source"
    /\ op.name = "SetBehaviorState"
    /\ controller.bBegunPlay
    /\ controller.CurrentState = "PatrolCrawling"
    /\ character.CurrentBehaviorState = "PatrolCrawling"
    /\ \E i \in DOMAIN calls : calls[i].f = "OnEnterState" /\ calls[i].new = "PatrolCrawling"


\* The states changed by the step, if it is a call of SetBehaviorState or of TransitionToState:
\* the character's new state, and the new state of a controller that has its character.
StatesChanged ==
    IF op'.name \in {"SetBehaviorState", "TransitionToState"}
    THEN (IF character'.CurrentBehaviorState # character.CurrentBehaviorState
          THEN {character'.CurrentBehaviorState} ELSE {})
         \cup (IF controller'.CurrentState # controller.CurrentState /\ controller'.ControlledMonster
               THEN {controller'.CurrentState} ELSE {})
    ELSE {}

\* C24: after every state change through SetBehaviorState or TransitionToState the character's
\* maximum walk speed is the speed of the current state: 0 in Idle, PatrolStandingSpeed in
\* PatrolStanding, PatrolCrawlingSpeed in PatrolCrawling.
C24_SpeedFollowsState ==
    [][ \A State \in StatesChanged :
           /\ character'.MaxWalkSpeed = GetMovementSpeedForState(State)
           /\ State = "Idle" => character'.MaxWalkSpeed = 0
           /\ State = "PatrolStanding" => character'.MaxWalkSpeed = PatrolStandingSpeed
           /\ State = "PatrolCrawling" => character'.MaxWalkSpeed = PatrolCrawlingSpeed ]_vars

\* The controller has taken its character to PatrolCrawling, and the character walks at
\* PatrolCrawlingSpeed.
C24_Witness ==
    /\ op.name = "TransitionToState"
    /\ op.State = "PatrolCrawling"
    /\ controller.ControlledMonster
    /\ character.CurrentBehaviorState = "PatrolCrawling"
    /\ character.MaxWalkSpeed = PatrolCrawlingSpeed
    /\ \E i \in DOMAIN calls : calls[i].f = "OnBehaviorStateChanged" /\ calls[i].old = "PatrolStanding"

\* The character, told directly, has come to rest at speed 0.
C24_StoppedInIdle ==
    /\ op.name = "SetBehaviorState"
    /\ op.State = "Idle"
    /\ character.CurrentBehaviorState = "Idle"
    /\ character.MaxWalkSpeed = 0


(***************************************************************************)
(* The step toward the destination.                                        *)
(***************************************************************************)
\* p lies no farther from Location than Target does.
NotBeyond(Location, p, Target) ==
    SizeSquared(VSub(p, Location)) <= SizeSquared(VSub(Target, Location))

\* C29: the next position a crawling tick of the controller intends, the current position plus
\* the step along the direction to the destination, never lies beyond the destination.
C29_StepBoundedByRemaining ==
    [][ op'.name = "Tick" /\ op'.Stepped
        => NotBeyond(actor.Location, NextPositionOf(Bundle, op'.DeltaTime), controller.CrawlingDestination) ]_vars

\* What holds (specification SpecSurf): the location MoveTowardsSurfaceLocation of the component
\* desires is not beyond its target, and with nothing in the way the body is moved there.
C29_ComponentStepBounded ==
    [][ op'.name = "MoveTowardsSurfaceLocation" /\ op'.ret
        => LET DesiredLocation == DesiredLocationOf(actor.Location, op'.TargetLocation, op'.DeltaTime,
                                                    PatrolCrawlingSpeed)
           IN  /\ NotBeyond(actor.Location, DesiredLocation, op'.TargetLocation)
               /\ DOMAIN world = {} => actor'.Location = DesiredLocation ]_vars

\* A frame whose Speed * DeltaTime exceeds the distance left has put the body on the target.
C29_Witness_Component ==
    /\ op.name = "MoveTowardsSurfaceLocation"
    /\ op.ret
    /\ Len(calls) = 1
    /\ PatrolCrawlingSpeed * op.DeltaTime > Size(op.TargetLocation)
    /\ actor.Location = op.TargetLocation

\* The earlier revision of the component, from the same places.
C29_EarlierComponentStepBounded ==
    [][ op'.name = "MoveTowardsSurfaceLocation" /\ op'.ret
        => NotBeyond(actor.Location,
                     NewLocationOf(actor.Location, op'.TargetLocation, op'.DeltaTime, PatrolCrawlingSpeed),
                     op'.TargetLocation) ]_vars


(***************************************************************************)
(* From construction to the end of the first idle period (specification    *)
(* SpecBegin).  The constructor draws TargetIdleDuration from its own      *)
(* defaults; the configured durations are those the editor has set by the  *)
(* time BeginPlay runs.  BeginPlay of src/unnamed/part_004 is that of      *)
(* Plugins/ as far as the idle data goes.                                  *)
(***************************************************************************)
CheckPatrolTransition_Plugin(w) ==
    IF IdleDurationReached(w.c.CurrentIdleTime, w.c.TargetIdleDuration)
    THEN UNION { LET d == Drew(w, "FRand", RandomValue)
                 IN  IF RollBelow(RandomValue, w.c.PatrolTransitionChance)
                     THEN UNION { TransitionToState_Plugin(d, PatrolStateFor(r)) : r \in Rolls }
                     ELSE { StayIdle(d, r) : r \in Rolls }
                 : RandomValue \in Rolls }
    ELSE {w}

ExecuteIdleBehavior_Plugin(w, DeltaTime) ==
    IF ~w.c.ControlledMonster THEN {w}
    ELSE UNION { CheckPatrolTransition_Plugin(x) : x \in IdleTimers(w, DeltaTime) }

BeginOp(name, DeltaTime) == [name |-> name, DeltaTime |-> DeltaTime, State |-> None, Revision |-> op.Revision]

InitBegin ==
    /\ world = OpenSpace
    /\ surface = Unused
    /\ calls = <<>>
    /\ \E v \in Revisions, s \in States, lo \in Durations, hi \in Durations, r \in Rolls, possessed \in BOOLEAN :
          /\ v = "Plugin" => s = "Idle"
          /\ op = [name |-> "-", DeltaTime |-> 0, State |-> None, Revision |-> v]
          /\ controller = [CrawlStart.c EXCEPT !.CurrentState = s,
                                               !.MinIdleDuration = lo,
                                               !.MaxIdleDuration = hi,
                                               !.PatrolTransitionChance = 1,
                                               !.TargetIdleDuration =
                                                   RandRange(DefaultMinIdleDuration, DefaultMaxIdleDuration, r)]
          /\ character = [CrawlStart.m EXCEPT !.bPossessed = possessed]
          /\ actor = CrawlStart.a
          /\ nav = CrawlStart.n

BeginBeginPlay ==
    /\ op.Revision = "Source"
    /\ ~controller.bBegunPlay
    /\ \E w2 \in BeginPlayController(Bundle) : Becomes(w2, BeginOp("BeginPlay", 0))

BeginBeginPlay_Plugin ==
    /\ op.Revision = "Plugin"
    /\ ~controller.bBegunPlay
    /\ \E w2 \in BeginPlayController_Plugin(Bundle) : Becomes(w2, BeginOp("BeginPlay", 0))

\* The ticks that follow BeginPlay: those of the idle state, and those of every state of a
\* controller that has found no monster to control.
BeginTick ==
    /\ op.Revision = "Source"
    /\ controller.bBegunPlay
    /\ controller.CurrentState = "Idle" \/ ~controller.ControlledMonster
    /\ \E DeltaTime \in DeltaTimes :
          \E w2 \in TickController(Bundle, DeltaTime) : Becomes(w2, BeginOp("Tick", DeltaTime))

BeginTick_Plugin ==
    /\ op.Revision = "Plugin"
    /\ controller.bBegunPlay
    /\ controller.CurrentState = "Idle"
    /\ \E DeltaTime \in DeltaTimes :
          \E w2 \in ExecuteIdleBehavior_Plugin(Bundle, DeltaTime) : Becomes(w2, BeginOp("Tick", DeltaTime))

NextBegin ==
    \/ BeginBeginPlay
    \/ BeginBeginPlay_Plugin
    \/ BeginTick
    \/ BeginTick_Plugin

SpecBegin == InitBegin /\ [][NextBegin]_vars

WithinConfiguredIdle(c) ==
    /\ c.TargetIdleDuration >= MinOf(c.MinIdleDuration, c.MaxIdleDuration)
    /\ c.TargetIdleDuration <= MaxOf(c.MinIdleDuration, c.MaxIdleDuration)

\* C32: after BeginPlay with a controlled monster, and so at the first Tick, the working data of
\* the initial state is that of its entry hook: the target of the first idle period lies within
\* the configured [MinIdleDuration, MaxIdleDuration].
C32_FirstIdleWithinConfigured ==
    op.name = "BeginPlay" /\ controller.ControlledMonster /\ controller.CurrentState = "Idle"
    => WithinConfiguredIdle(controller) /\ controller.CurrentIdleTime = 0

\* What holds: BeginPlay of Source/ runs the entry hook of the initial state, whichever it is.
C32_FirstIdleWithinConfigured_Source ==
    [][ op.Revision = "Source" /\ op'.name = "BeginPlay" /\ controller'.ControlledMonster
        => /\ \E i \in DOMAIN calls' : calls'[i].f = "OnEnterState" /\ calls'[i].new = controller.CurrentState
           /\ controller' \in { x.c : x \in OnEnterState([Bundle EXCEPT !.c = controller', !.a = actor'],
                                                         controller.CurrentState) }
           /\ controller'.CurrentState = "Idle"
              => WithinConfiguredIdle(controller') /\ controller'.CurrentIdleTime = 0 ]_vars

C32_Witness_Source ==
    /\ op.Revision = "Source"
    /\ op.name = "BeginPlay"
    /\ controller.ControlledMonster
    /\ controller.CurrentState = "Idle"
    /\ controller.TargetIdleDuration <= MaxDuration

\* The first idle period of the Plugins revision has outlasted the configured maximum.
C32_IdleBeyondConfigured ==
    /\ op.Revision = "Plugin"
    /\ op.name = "Tick"
    /\ controller.CurrentState = "Idle"
    /\ controller.CurrentIdleTime > MaxOf(controller.MinIdleDuration, controller.MaxIdleDuration)
    /\ controller.CurrentIdleTime < controller.TargetIdleDuration


(***************************************************************************)
(* The controller that crawls by movement input and attempts a surface     *)
(* transition at random intervals (src/unnamed/part_004): specification    *)
(* SpecTransit.  The normals of the worlds lie along the axes; the ticks   *)
(* followed are those of PatrolCrawling.                                   *)
(***************************************************************************)
SurfaceSearchDistance == 100          \* 500.0f
CachedSurfaceOffsetDistance == 10     \* 50.0f
\* The settings the model runs with.
MinSurfaceTransitionInterval == 1
MaxSurfaceTransitionInterval == 2
MaxSurfaceAngles == {45, 90}

GetActorUpVector(w) == w.a.Rotation.Z
GetActorForwardVector(w) == w.a.Rotation.X
GetActorRightVector(w) == Cross(w.a.Rotation.Z, w.a.Rotation.X)

\* FMath::RadiansToDegrees(FMath::Acos(DotProduct)) of the clamped dot product with world up, for
\* a unit normal along an axis.
SurfaceAngle(ImpactNormal) ==
    LET DotProduct == MaxOf(-1, MinOf(1, Dot(ImpactNormal, UpVector)))
    IN  CASE DotProduct = 1 -> 0
          [] DotProduct = 0 -> 90
          [] DotProduct = -1 -> 180

\* DotProduct < SurfaceTransitionAngleThreshold (0.9f), for unit vectors along axes
IsDifferentSurface(CurrentUpVector, ImpactNormal) ==
    10 * MaxOf(-1, MinOf(1, Dot(CurrentUpVector, ImpactNormal))) < 9

NoDestinationFound == [bFound |-> FALSE, Location |-> ZeroVector, By |-> None, Normal |-> ZeroVector]

\* The inner loop of FindCrawlingSurfaceDestination over the six directions about the body, from
\* direction i on: the first hit whose surface angle is within MaxSurfaceAngle decides.
RECURSIVE SearchAround(_, _, _, _)
SearchAround(w, SearchLocation, TraceDirections6, i) ==
    IF i > Len(TraceDirections6) THEN NoDestinationFound
    ELSE LET HitResult == LineTraceSingleByChannel(
                              SearchLocation,
                              VAdd(SearchLocation, ScaleTo(TraceDirections6[i], SurfaceSearchDistance)))
         IN  IF HitResult.bBlockingHit /\ SurfaceAngle(HitResult.Normal) <= w.c.MaxSurfaceAngle
             THEN [bFound |-> TRUE,
                   Location |-> VAdd(HitResult.Location, VScale(HitResult.Normal, CachedSurfaceOffsetDistance)),
                   By |-> "FindCrawlingSurfaceDestination",
                   Normal |-> HitResult.Normal]
             ELSE SearchAround(w, SearchLocation, TraceDirections6, i + 1)

\* The directions FMath::VRand() is drawn from, and the points the navigation system may offer.
RandomDirections == {<<1, 0, 0>>, <<0, -1, 0>>, <<0, 0, 1>>}
ReachablePoints == {<<0, -30, 0>>}

\* FindCrawlingSurfaceDestination: each of the MaxSurfaceSearchAttempts (8) attempts draws afresh,
\* so the result is that of any draw that finds a surface, and the fallback to the navigation
\* system when the draws find none.
FindCrawlingSurfaceDestination(w) ==
    IF ~w.c.ControlledMonster THEN {NoDestinationFound}
    ELSE
    LET CurrentLocation == w.a.Location
        Up == GetActorUpVector(w)
        Fwd == GetActorForwardVector(w)
        Right == GetActorRightVector(w)
        TraceDirections6 == <<VScale(Up, -1), Fwd, Up, Right, VScale(Right, -1), VScale(Fwd, -1)>>
        Tried == { SearchAround(w, VAdd(CurrentLocation, ScaleTo(d, SurfaceSearchDistance)), TraceDirections6, 1)
                     : d \in RandomDirections }
        Fallback == IF w.c.CachedNavSystem
                    THEN {NoDestinationFound}
                         \cup { [bFound |-> TRUE, Location |-> VAdd(CurrentLocation, q),
                                 By |-> "GetRandomReachablePointInRadius", Normal |-> ZeroVector]
                                : q \in ReachablePoints }
                    ELSE {NoDestinationFound}
    IN  { t \in Tried : t.bFound } \cup (IF \E t \in Tried : ~t.bFound THEN Fallback ELSE {})

\* The loop of AttemptSurfaceTransition over its five search directions, from direction i on.
RECURSIVE SearchAdjacent(_, _, _)
SearchAdjacent(w, SearchDirections, i) ==
    IF i > Len(SearchDirections) THEN [w |-> w, By |-> None, Normal |-> ZeroVector]
    ELSE LET CurrentLocation == w.a.Location
             HitResult == LineTraceSingleByChannel(
                              CurrentLocation,
                              VAdd(CurrentLocation,
                                   ScaleTo(SearchDirections[i], SurfaceSearchDistance \div 2)))
         IN  IF HitResult.bBlockingHit /\ IsDifferentSurface(GetActorUpVector(w), HitResult.Normal)
             THEN [w |-> [w EXCEPT !.c.CurrentCrawlingDestination =
                                       VAdd(HitResult.Location,
                                            VScale(HitResult.Normal, CachedSurfaceOffsetDistance)),
                                   !.c.bHasCrawlingDestination = TRUE,
                                   !.c.bIsStoppedAtDestination = FALSE,
                                   !.c.CurrentStopTime = 0],
                   By |-> "AttemptSurfaceTransition",
                   Normal |-> HitResult.Normal]
             ELSE SearchAdjacent(w, SearchDirections, i + 1)

AttemptSurfaceTransition(w, RandomValue) ==
    IF ~RollBelow(RandomValue, w.c.SurfaceTransitionChance) \/ ~w.c.ControlledMonster
    THEN [w |-> w, By |-> None, Normal |-> ZeroVector]
    ELSE LET Up == GetActorUpVector(w)
             Fwd == GetActorForwardVector(w)
             Right == GetActorRightVector(w)
         IN  SearchAdjacent(w, <<Right, VScale(Right, -1), Fwd, VScale(Fwd, -1), VScale(Up, -1)>>, 1)

\* AddMovementInput(ProjectedDirection, 1.0f): the movement component carries the body along the
\* direction at its walk speed, or is held where it is.
AddMovementInput(w, ProjectedDirection, DeltaTime) ==
    { w, [w EXCEPT !.a.Location = VAdd(@, ScaleTo(ProjectedDirection, w.m.MaxWalkSpeed * DeltaTime))] }

\* ExecutePatrolCrawlingBehavior_Implementation from "Check if we're currently moving to a
\* destination" on; r carries what has set the destination in this tick so far.
CrawlOn_Timed(r, DeltaTime) ==
    LET w == r.w
        CurrentLocation == w.a.Location
        ToDestination == VSub(w.c.CurrentCrawlingDestination, CurrentLocation)
        SurfaceNormal == w.m.CurrentSurfaceNormal
        DirectionToDestination == GetSafeNormal(ToDestination)
        ProjectedDirection ==
            VSub(VScale(DirectionToDestination, SizeSquared(SurfaceNormal)),
                 VScale(SurfaceNormal, Dot(DirectionToDestination, SurfaceNormal)))
    IN  IF w.c.bHasCrawlingDestination
        THEN IF SizeSquared(ToDestination) <= PatrolAcceptanceRadius * PatrolAcceptanceRadius
             THEN { [r EXCEPT !.w = StopMovement([w EXCEPT !.c.bIsStoppedAtDestination = TRUE,
                                                           !.c.CurrentStopTime = 0,
                                                           !.c.TargetStopDuration =
                                                               GetValidatedRandomRange(MinStopDuration,
                                                                                       MaxStopDuration, roll),
                                                           !.c.bHasCrawlingDestination = FALSE])]
                    : roll \in Rolls }
             ELSE { [r EXCEPT !.w = x] : x \in AddMovementInput(w, ProjectedDirection, DeltaTime) }
        ELSE { IF f.bFound
               THEN [w |-> [w EXCEPT !.c.CurrentCrawlingDestination = f.Location,
                                     !.c.bHasCrawlingDestination = TRUE],
                     By |-> f.By, Normal |-> f.Normal]
               ELSE r
               : f \in FindCrawlingSurfaceDestination(w) }

\* ExecutePatrolCrawlingBehavior_Implementation of part_004.
ExecutePatrolCrawlingBehavior_Timed(w, DeltaTime) ==
    IF ~w.c.ControlledMonster THEN {[w |-> w, By |-> None, Normal |-> ZeroVector]}
    ELSE
    LET w1 == [w EXCEPT !.c.TimeSinceSurfaceTransitionCheck = @ + DeltaTime]
        w2 == IF w1.c.bIsStoppedAtDestination
              THEN [w1 EXCEPT !.c.CurrentStopTime = @ + DeltaTime]
              ELSE w1
        bStillWaiting == w2.c.bIsStoppedAtDestination /\ w2.c.CurrentStopTime < w2.c.TargetStopDuration
        w3 == IF w2.c.bIsStoppedAtDestination
              THEN [w2 EXCEPT !.c.bIsStoppedAtDestination = FALSE,
                              !.c.CurrentStopTime = 0,
                              !.c.bHasCrawlingDestination = FALSE]
              ELSE w2
        attempted ==
            IF w3.c.TimeSinceSurfaceTransitionCheck >= w3.c.NextSurfaceTransitionCheckTime
            THEN { LET t == AttemptSurfaceTransition(Drew(w3, "FRand", RandomValue), RandomValue)
                   IN  [t EXCEPT !.w.c.TimeSinceSurfaceTransitionCheck = 0,
                                 !.w.c.NextSurfaceTransitionCheckTime =
                                     GetValidatedRandomRange(MinSurfaceTransitionInterval,
                                                             MaxSurfaceTransitionInterval, roll)]
                   : RandomValue \in Rolls, roll \in Rolls }
            ELSE {[w |-> w3, By |-> None, Normal |-> ZeroVector]}
    IN  IF bStillWaiting THEN {[w |-> w2, By |-> None, Normal |-> ZeroVector]}
        ELSE UNION { CrawlOn_Timed(t, DeltaTime) : t \in attempted }

\* OnEnterState_Implementation of part_004.
OnEnterState_Timed(w, NewState) ==
    IF NewState = "PatrolCrawling"
    THEN { [x EXCEPT !.c.TimeSinceSurfaceTransitionCheck = 0,
                     !.c.NextSurfaceTransitionCheckTime =
                         GetValidatedRandomRange(MinSurfaceTransitionInterval,
                                                 MaxSurfaceTransitionInterval, roll),
                     !.c.bHasCrawlingDestination = FALSE]
           : x \in OnEnterState_Plugin(w, NewState), roll \in Rolls }
    ELSE OnEnterState_Plugin(w, NewState)

\* TransitionToState of part_004.
TransitionToState_Timed(w, NewState) ==
    IF w.c.CurrentState # NewState
    THEN LET w1 == OnExitState(w, w.c.CurrentState)
             w2 == [w1 EXCEPT !.c.CurrentState = NewState]
             w3 == IF w2.c.ControlledMonster THEN SetBehaviorState_Plugin(w2, NewState) ELSE w2
         IN  OnEnterState_Timed(w3, NewState)
    ELSE {w}

\* The worlds crawled: a wall to the right of the body, a ceiling over it, a floor under it.
TransitWalls ==
    [k \in {<<0, 1, 0>>, UpVector, DownVector} |->
        IF k = <<0, 1, 0>> THEN [Distance |-> 40, Normal |-> <<0, -1, 0>>]
        ELSE IF k = UpVector THEN [Distance |-> 40, Normal |-> DownVector]
        ELSE [Distance |-> 10, Normal |-> UpVector]]
TransitLevels ==
    { [k \in K |-> TransitWalls[k]]
        : K \in {{}, {<<0, 1, 0>>}, {UpVector}, {DownVector}, {<<0, 1, 0>>, DownVector}} }

\* The body stands upright, or clings to a wall with its head up.
TransitRotations ==
    { MakeFromXZ(VScale(ForwardVector, One), UpVector), MakeFromXZ(VScale(UpVector, One), <<0, 1, 0>>) }

MaxTransitTransitions == 1

NoTransitOp == [name |-> "-", DeltaTime |-> 0, State |-> None, By |-> None, Normal |-> ZeroVector,
                Transitions |-> 0]

\* The controller after BeginPlay with its character, taken to PatrolCrawling.
InitTransit ==
    /\ world \in TransitLevels
    /\ surface = Unused
    /\ calls = <<>>
    /\ op = NoTransitOp
    /\ \E angle \in MaxSurfaceAngles, rot \in TransitRotations, b \in BOOLEAN :
       LET c0 == [bBegunPlay |-> TRUE,
                  ControlledMonster |-> TRUE,
                  CachedNavSystem |-> b,
                  CachedPathFollowingComp |-> TRUE,
                  CurrentState |-> "Idle",
                  MinIdleDuration |-> 1,
                  MaxIdleDuration |-> 1,
                  PatrolTransitionChance |-> ChanceDen,
                  SurfaceTransitionChance |-> ChanceDen,
                  MaxSurfaceAngle |-> angle,
                  BreathingCycleDuration |-> BreathingCycleDuration,
                  CurrentIdleTime |-> 0,
                  TargetIdleDuration |-> 1,
                  TimeSinceLastSubtleMovement |-> 0,
                  NextSubtleMovementTime |-> MinSubtleMovementInterval,
                  BreathingCycleTime |-> 0,
                  CurrentStopTime |-> 0,
                  TargetStopDuration |-> 0,
                  bIsStoppedAtDestination |-> FALSE,
                  TimeSinceSurfaceTransitionCheck |-> 0,
                  NextSurfaceTransitionCheckTime |-> 0,
                  CurrentCrawlingDestination |-> ZeroVector,
                  bHasCrawlingDestination |-> FALSE]
           w0 == [c |-> c0,
                  m |-> [bBegunPlay |-> TRUE, bPossessed |-> TRUE, CurrentBehaviorState |-> "Idle",
                         MaxWalkSpeed |-> 0, CurrentSurfaceNormal |-> rot.Z],
                  a |-> [Location |-> ZeroVector, Rotation |-> rot],
                  n |-> [bNavSystem |-> b, Status |-> "Idle"],
                  log |-> <<>>]
       IN  \E w2 \in TransitionToState_Timed(w0, "PatrolCrawling") :
              /\ controller = w2.c
              /\ character = w2.m
              /\ actor = w2.a
              /\ nav = w2.n

TransitTick ==
    /\ controller.CurrentState = "PatrolCrawling"
    /\ InCrawlLevel(actor.Location)
    /\ \E DeltaTime \in DeltaTimes :
          \E r \in ExecutePatrolCrawlingBehavior_Timed(Bundle, DeltaTime) :
             Becomes(r.w, [name |-> "Tick", DeltaTime |-> DeltaTime, State |-> None, By |-> r.By,
                           Normal |-> r.Normal, Transitions |-> op.Transitions])

TransitTransitionToState ==
    /\ op.Transitions < MaxTransitTransitions
    /\ \E NewState \in {"PatrolStanding", "PatrolCrawling"} :
          \E w2 \in TransitionToState_Timed(Bundle, NewState) :
             Becomes(w2, [NoTransitOp EXCEPT !.name = "TransitionToState", !.State = NewState,
                                             !.Transitions = op.Transitions + 1])

NextTransit ==
    \/ TransitTick
    \/ TransitTransitionToState

SpecTransit == InitTransit /\ [][NextTransit]_vars

\* C26: every crawl destination the controller sets from a ray hit, by
\* FindCrawlingSurfaceDestination or by AttemptSurfaceTransition, lies on a surface whose normal
\* is within MaxSurfaceAngle of world up.
C26_DestinationWithinMaxSurfaceAngle ==
    [][ op'.By \in {"FindCrawlingSurfaceDestination", "AttemptSurfaceTransition"}
        => SurfaceAngle(op'.Normal) <= controller.MaxSurfaceAngle ]_vars

\* What holds: the destinations FindCrawlingSurfaceDestination takes from a ray hit are within
\* the angle.
C26_PlannerWithinMaxSurfaceAngle ==
    [][ op'.By = "FindCrawlingSurfaceDestination"
        => /\ SurfaceAngle(op'.Normal) <= controller.MaxSurfaceAngle
           /\ controller'.bHasCrawlingDestination ]_vars

\* The planner has passed over a surface beyond the angle and taken one within it.
C26_Witness_Planner ==
    /\ op.By = "FindCrawlingSurfaceDestination"
    /\ controller.MaxSurfaceAngle = 45
    /\ <<0, 1, 0>> \in DOMAIN world
    /\ op.Normal = UpVector


(***************************************************************************)
(* The situations of the crawl.                                            *)
(***************************************************************************)
\* C30: in PatrolCrawling the controller is in exactly one of the situations no destination,
\* moving to a destination, stopped at a destination: the moving flag and the stopped flag are
\* never both true, and a tick or a transition leads from one situation to one situation.
C30_MovingOrStopped ==
    controller.CurrentState = "PatrolCrawling"
    => /\ ~(controller.bIsMovingToCrawlDestination /\ controller.bIsStoppedAtCrawlDestination)
       /\ Cardinality({ x \in {"no destination", "moving", "stopped"} :
                          \/ x = "moving" /\ controller.bIsMovingToCrawlDestination
                          \/ x = "stopped" /\ controller.bIsStoppedAtCrawlDestination
                          \/ /\ x = "no destination"
                             /\ ~controller.bIsMovingToCrawlDestination
                             /\ ~controller.bIsStoppedAtCrawlDestination }) = 1

\* The body has moved to a destination and stopped there.
C30_Witness ==
    /\ controller.CurrentState = "PatrolCrawling"
    /\ op.name = "Tick"
    /\ controller.bIsStoppedAtCrawlDestination
    /\ ~controller.bIsMovingToCrawlDestination
    /\ actor.Location # ZeroVector
    /\ HasReachedCrawlDestination(Bundle)

\* The same for the controller of src/unnamed/part_004 (specification SpecTransit), whose flags
\* are bHasCrawlingDestination and bIsStoppedAtDestination.
C30_MovingOrStopped_Timed ==
    controller.CurrentState = "PatrolCrawling"
    => ~(controller.bHasCrawlingDestination /\ controller.bIsStoppedAtDestination)

C30_Witness_Timed ==
    /\ controller.CurrentState = "PatrolCrawling"
    /\ op.name = "Tick"
    /\ controller.bIsStoppedAtDestination
    /\ ~controller.bHasCrawlingDestination


\* C31: the pause at a crawl destination lasts at least the duration drawn.  The arrival tick
\* starts the count of the pause at zero; a tick during the pause adds its time to the count,
\* leaves the body where it is and selects no destination; and the tick that ends the pause, the
\* only one that may select the next destination, brings the count to TargetCrawlStopDuration or
\* more.
C31_PauseLastsDrawnDuration ==
    [][ op'.name = "Tick" /\ controller.CurrentState = "PatrolCrawling"
        => /\ ~controller.bIsStoppedAtCrawlDestination /\ controller'.bIsStoppedAtCrawlDestination
              => /\ controller'.CurrentCrawlStopTime = 0
                 /\ controller'.TargetCrawlStopDuration \in MinStopDuration..MaxStopDuration
                 /\ actor'.Location = actor.Location
           /\ controller.bIsStoppedAtCrawlDestination /\ controller'.bIsStoppedAtCrawlDestination
              => /\ controller'.CurrentCrawlStopTime = controller.CurrentCrawlStopTime + op'.DeltaTime
                 /\ controller'.CurrentCrawlStopTime < controller.TargetCrawlStopDuration
                 /\ controller'.TargetCrawlStopDuration = controller.TargetCrawlStopDuration
                 /\ actor'.Location = actor.Location
                 /\ controller'.CrawlingDestination = controller.CrawlingDestination
                 /\ ~controller'.bIsMovingToCrawlDestination
                 /\ ~op'.Planned /\ ~op'.Stepped
           /\ controller.bIsStoppedAtCrawlDestination /\ ~controller'.bIsStoppedAtCrawlDestination
              => /\ controller.CurrentCrawlStopTime + op'.DeltaTime >= controller.TargetCrawlStopDuration
                 /\ actor'.Location = actor.Location ]_vars

\* A pause that has outlasted a tick: the body waits with time on the count.
C31_Witness ==
    /\ op.name = "Tick"
    /\ controller.CurrentState = "PatrolCrawling"
    /\ controller.bIsStoppedAtCrawlDestination
    /\ controller.CurrentCrawlStopTime > 0
    /\ controller.CurrentCrawlStopTime < controller.TargetCrawlStopDuration

\* The pause has ended and the next destination is selected.
C31_PauseEnded ==
    /\ op.name = "Tick"
    /\ op.Planned
    /\ controller.bIsMovingToCrawlDestination
    /\ controller.TargetCrawlStopDuration > 0
    /\ controller.CurrentCrawlStopTime = 0

\* The same for the controller of src/unnamed/part_004 (specification SpecTransit), where the
\* tick that ends a pause may arrive at once at the destination it sets and start the next pause.
C31_PauseLastsDrawnDuration_Timed ==
    [][ op'.name = "Tick" /\ controller.CurrentState = "PatrolCrawling" /\ controller.bIsStoppedAtDestination
        => IF controller.CurrentStopTime + op'.DeltaTime < controller.TargetStopDuration
           THEN /\ controller'.bIsStoppedAtDestination
                /\ controller'.CurrentStopTime = controller.CurrentStopTime + op'.DeltaTime
                /\ actor'.Location = actor.Location
                /\ ~controller'.bHasCrawlingDestination
                /\ op'.By = None
           ELSE controller'.CurrentStopTime = 0 ]_vars

C31_Witness_Timed ==
    /\ op.name = "Tick"
    /\ controller.bIsStoppedAtDestination
    /\ controller.CurrentStopTime > 0


(***************************************************************************)
(* The tracked surface normal frame by frame (specification SpecAlign).    *)
(* Here a frame lasts a number of tenths of a second and a unit vector,    *)
(* the surface normal included, is kept at length One, so that a normal    *)
(* part of the way between two surfaces has a value.                       *)
(***************************************************************************)
\* Frames of 0.1 s and 0.2 s.
FrameTenths == {1, 2}
FrameNormals == { VScale(n, One) : n \in {UpVector, DownVector, ForwardVector, <<0, 1, 0>>} }

\* |N| is 1 to within the rounding of a coordinate to a tenth.
IsUnitNormal(N) == 90 <= SizeSquared(N) /\ SizeSquared(N) <= 110

\* AMonsterAIController::UpdateSurfaceAlignment for a frame of Tenths tenths of a second: the
\* state it leaves, the normal it projects the forward vector with, and the axes it hands to
\* MakeFromXZ if it builds the rotation.
UpdateSurfaceAlignment_Frame(w, Tenths) ==
    IF ~w.c.ControlledMonster \/ SurfaceAlignmentSpeed <= 0
    THEN [w |-> w, bProjected |-> FALSE, bOriented |-> FALSE, bParallel |-> FALSE,
          Normal |-> ZeroVector, Forward |-> ZeroVector]
    ELSE
    LET N == VInterpTo(w.c.CurrentSurfaceNormal, w.c.TargetSurfaceNormal, Tenths, SurfaceAlignmentSpeed, 10)
        CurrentRotation == w.a.Rotation
        ToDestination == GetSafeNormal(VSub(w.c.CrawlingDestination, w.a.Location))
        Forward == IF w.c.bIsMovingToCrawlDestination /\ ToDestination # ZeroVector
                   THEN VInterpTo(CurrentRotation.X, ToDestination, Tenths, 5, 20)  \* MovementDirectionBlendSpeed = 2.5f
                   ELSE CurrentRotation.X
        \* ForwardVector - CurrentSurfaceNormal * Dot(ForwardVector, CurrentSurfaceNormal), times One * One
        ProjectedForward == GetSafeNormal(VSub(VScale(Forward, One * One), VScale(N, Dot(Forward, N))))
        w1 == [w EXCEPT !.c.CurrentSurfaceNormal = N]
        bOriented == ProjectedForward # ZeroVector /\ N # ZeroVector
    IN  [w |-> IF bOriented
               THEN [w1 EXCEPT !.a.Rotation =
                        RInterpTo(CurrentRotation, MakeFromXZ(ProjectedForward, N), Tenths,
                                  SurfaceAlignmentSpeed, 10)]
               ELSE w1,
         bProjected |-> TRUE, bOriented |-> bOriented, bParallel |-> Cross(Forward, N) = ZeroVector,
         Normal |-> N, Forward |-> ProjectedForward]

\* The branch of AMonsterCharacter::UpdateSurfaceAttachment (Plugins revision) taken when no
\* surface is under the body, for a frame of Tenths tenths of a second.
UpdateSurfaceAttachment_Detached(ch, a, Tenths) ==
    [ch |-> [ch EXCEPT !.bIsAttachedToSurface = FALSE,
                       !.CurrentSurfaceNormal =
                           VInterpTo(@, VScale(UpVector, One), Tenths, CharacterAlignmentSpeed, 20)],
     a |-> [a EXCEPT !.Rotation =
                         RInterpTo(@, MakeFromXZ(DefaultRotationFor(@).X, VScale(UpVector, One)), Tenths,
                                   CharacterAlignmentSpeed, 20)]]

MaxAlignTicks == 4
NoAlignOp == [name |-> "-", Tenths |-> 0, bProjected |-> FALSE, bOriented |-> FALSE, bParallel |-> FALSE,
              Normal |-> ZeroVector, Forward |-> ZeroVector, Ticks |-> 0]

\* The controller of Source/ has entered PatrolCrawling on a surface (both normals that of the
\* surface, the body aligned with it); or the character of Plugins/, whose controller does nothing
\* in a crawling tick, is attached to the surface; or the body is aligned by the component.
AlignRevisions == Revisions \cup {"Component"}
InitAlign ==
    /\ world = OpenSpace
    /\ nav = Unused
    /\ surface = Unused
    /\ calls = <<>>
    /\ op = NoAlignOp
    /\ \E n \in FrameNormals, f \in FrameNormals, moving \in BOOLEAN, rev \in AlignRevisions :
          /\ Dot(n, f) = 0
          /\ rev # "Source" => ~moving
          /\ controller = [Revision |-> rev,
                           ControlledMonster |-> TRUE,
                           CurrentSurfaceNormal |-> n,
                           TargetSurfaceNormal |-> n,
                           bIsMovingToCrawlDestination |-> moving,
                           CrawlingDestination |-> <<20, 0, 0>>]
          /\ character = [bIsAttachedToSurface |-> TRUE, CurrentSurfaceNormal |-> n]
          /\ actor = [Location |-> ZeroVector, Rotation |-> MakeFromXZ(f, n)]

\* A crawling tick of the controller: UpdateSurfaceAlignment, and then the rest of the tick, which
\* leaves the target normal or sets it to the normal of the surface it has found.
AlignTick ==
    /\ controller.Revision = "Source"
    /\ op.Ticks < MaxAlignTicks
    /\ \E Tenths \in FrameTenths, NewSurfaceNormal \in FrameNormals \cup {controller.TargetSurfaceNormal} :
       LET r == UpdateSurfaceAlignment_Frame([c |-> controller, a |-> actor], Tenths)
       IN  /\ controller' = [r.w.c EXCEPT !.TargetSurfaceNormal = NewSurfaceNormal]
           /\ actor' = r.w.a
           /\ op' = [name |-> "UpdateSurfaceAlignment", Tenths |-> Tenths, bProjected |-> r.bProjected,
                     bOriented |-> r.bOriented, bParallel |-> r.bParallel,
                     Normal |-> r.Normal, Forward |-> r.Forward,
                     Ticks |-> op.Ticks + 1]
           /\ UNCHANGED <<world, character, nav, surface, calls>>

\* A tick of the character with no surface under it.
AlignDetachedTick ==
    /\ controller.Revision = "Plugin"
    /\ op.Ticks < MaxAlignTicks
    /\ \E Tenths \in FrameTenths :
       LET r == UpdateSurfaceAttachment_Detached(character, actor, Tenths)
       IN  /\ character' = r.ch
           /\ actor' = r.a
           /\ op' = [NoAlignOp EXCEPT !.name = "UpdateSurfaceAttachment", !.Tenths = Tenths,
                                   !.Ticks = op.Ticks + 1]
           /\ UNCHANGED <<world, controller, nav, surface, calls>>

\* A tick of the character over a surface: the normal is that of the surface.
AlignAttachedTick ==
    /\ controller.Revision = "Plugin"
    /\ op.Ticks < MaxAlignTicks
    /\ \E NewSurfaceNormal \in FrameNormals, Tenths \in FrameTenths :
       /\ character' = [character EXCEPT !.bIsAttachedToSurface = TRUE,
                                         !.CurrentSurfaceNormal = NewSurfaceNormal]
       /\ actor' = [actor EXCEPT !.Rotation =
                       RInterpTo(@, MakeFromXZ(ProjectedForwardOn(@.X, ScaleTo(NewSurfaceNormal, 1)),
                                               NewSurfaceNormal),
                                 Tenths, CharacterAlignmentSpeed, 10)]
       /\ op' = [NoAlignOp EXCEPT !.name = "UpdateSurfaceAttachment", !.Tenths = Tenths,
                                   !.Ticks = op.Ticks + 1]
       /\ UNCHANGED <<world, controller, nav, surface, calls>>

\* USurfacePathfindingComponent::AlignToSurface toward the normal of a surface, for a frame that
\* covers the whole turn; the up axis is kept at length One here.
AlignComponentTick ==
    /\ controller.Revision = "Component"
    /\ op.Ticks < MaxAlignTicks
    /\ \E TargetNormal \in FrameNormals :
          LET b2 == AlignToSurface([s |-> [CachedOwner |-> TRUE], a |-> actor], ScaleTo(TargetNormal, 1), 1)
          IN  /\ actor' = [actor EXCEPT !.Rotation = MakeFromXZ(b2.a.Rotation.X, VScale(b2.a.Rotation.Z, One))]
              /\ op' = [NoAlignOp EXCEPT !.name = "AlignToSurface",
                                         !.bOriented = TRUE,
                                         !.bParallel = Cross(actor.Rotation.X, TargetNormal) = ZeroVector,
                                         !.Normal = TargetNormal,
                                         !.Forward = b2.a.Rotation.X,
                                         !.Ticks = op.Ticks + 1]
              /\ UNCHANGED <<world, controller, character, nav, surface, calls>>

NextAlign ==
    \/ AlignTick
    \/ AlignDetachedTick
    \/ AlignAttachedTick
    \/ AlignComponentTick

SpecAlign == InitAlign /\ [][NextAlign]_vars

\* C27: the surface normal UpdateSurfaceAlignment projects the forward vector with, and builds the
\* orientation from, is a unit vector: the interpolated normal is normalized before it is used.
C27_NormalUnitWhenUsed ==
    op.name = "UpdateSurfaceAlignment" /\ op.bProjected => IsUnitNormal(op.Normal)

\* What holds: a zero normal is not handed to MakeFromXZ, the rotation is left as it was.
C27_ZeroNormalBuildsNoRotation ==
    [][ op'.name = "UpdateSurfaceAlignment" /\ op'.Normal = ZeroVector
        => ~op'.bOriented /\ actor' = actor ]_vars

\* Midway between opposite normals.
C27_Witness_Zero ==
    /\ op.name = "UpdateSurfaceAlignment"
    /\ op.bProjected
    /\ op.Normal = ZeroVector
    /\ controller.CurrentSurfaceNormal = ZeroVector

\* The normal the character keeps is a unit vector after every tick.
C27_CharacterNormalUnit ==
    op.name = "UpdateSurfaceAttachment" => IsUnitNormal(character.CurrentSurfaceNormal)

\* C28: for a unit target normal and a forward vector parallel to it, the aligner (the component's
\* AlignToSurface, the controller's UpdateSurfaceAlignment) substitutes a reference axis: the
\* orientation is built, with a forward vector that is not zero and is perpendicular to the normal.
C28_DegenerateAlignmentResolved ==
    op.name \in {"AlignToSurface", "UpdateSurfaceAlignment"} /\ op.bParallel /\ IsUnitNormal(op.Normal)
    => /\ op.bOriented
       /\ op.Forward # ZeroVector
       /\ Dot(op.Forward, op.Normal) = 0
       /\ Cross(op.Normal, op.Forward) # ZeroVector

\* What holds: the component's AlignToSurface does so, and sets the body to these axes.
C28_ComponentSubstitutesAxis ==
    op.name = "AlignToSurface"
    => /\ op.bOriented
       /\ op.Forward # ZeroVector
       /\ Dot(op.Forward, op.Normal) = 0
       /\ Cross(op.Normal, op.Forward) # ZeroVector
       /\ actor.Rotation = MakeFromXZ(op.Forward, op.Normal)

C28_Witness_Component ==
    /\ op.name = "AlignToSurface"
    /\ op.bParallel
    /\ op.Normal = VScale(ForwardVector, One)
    /\ actor.Rotation.X = <<0, 0, One>>


(***************************************************************************)
(* The machine keeps running (specification Spec).                         *)
(***************************************************************************)
\* Tick, for the frame time DeltaTime, runs to its end from the current state: it has an outcome,
\* and every outcome leaves the controller in one of the three states.
TickCompletes(DeltaTime) ==
    /\ TickController(Bundle, DeltaTime) # {}
    /\ \A w2 \in TickController(Bundle, DeltaTime) : w2.c.CurrentState \in States

\* TransitionToState(NewState) from the current state ends with NewState the current state.
TransitionTakes(NewState) ==
    /\ TransitionToState(Bundle, NewState) # {}
    /\ \A w2 \in TransitionToState(Bundle, NewState) : w2.c.CurrentState = NewState

\* C22: there is no terminal state.  In every reachable state the current state is Idle,
\* PatrolStanding or PatrolCrawling, a Tick of any frame time runs to its end, and
\* TransitionToState takes the controller to each of the two other states.
C22_NoTerminalState ==
    /\ controller.CurrentState \in States
    /\ \A DeltaTime \in DeltaTimes : TickCompletes(DeltaTime)
    /\ \A NewState \in States \ {controller.CurrentState} : TransitionTakes(NewState)

\* The controller has ticked its way out of Idle into PatrolCrawling, with its body.
C22_Witness ==
    /\ op.name = "Tick"
    /\ controller.CurrentState = "PatrolCrawling"
    /\ controller.ControlledMonster
    /\ \E i \in DOMAIN calls : calls[i].f = "OnExitState" /\ calls[i].old = "Idle"

\* The same in the levels crawled (specification SpecCrawl), where the controller holds
\* destinations and pauses at them; there a tick never leaves PatrolCrawling of itself.
C22_NoTerminalState_Crawling ==
    /\ controller.CurrentState \in States
    /\ \A DeltaTime \in DeltaTimes : TickCompletes(DeltaTime)
    /\ \A NewState \in States \ {controller.CurrentState} : TransitionTakes(NewState)
    /\ controller.CurrentState = "PatrolCrawling"
          => \A DeltaTime \in DeltaTimes :
                \A w2 \in TickController(Bundle, DeltaTime) : w2.c.CurrentState = "PatrolCrawling"


(***************************************************************************)
(* Entering Idle (specification Spec).                                     *)
(***************************************************************************)
\* The step has called OnEnterState(Idle).
EntersIdle == \E i \in DOMAIN calls' : calls'[i].f = "OnEnterState" /\ calls'[i].new = "Idle"

\* C20: every entry into Idle resets the idle timers: CurrentIdleTime, TimeSinceLastSubtleMovement
\* and BreathingCycleTime are 0 and TargetIdleDuration lies between the smaller and the larger of
\* MinIdleDuration and MaxIdleDuration; and every step that makes Idle the state is such an entry.
C20_IdleEntryResetsTimers ==
    [][ /\ EntersIdle
           => /\ controller'.CurrentState = "Idle"
              /\ controller'.CurrentIdleTime = 0
              /\ controller'.TimeSinceLastSubtleMovement = 0
              /\ controller'.BreathingCycleTime = 0
              /\ controller'.TargetIdleDuration >= MinOf(controller.MinIdleDuration, controller.MaxIdleDuration)
              /\ controller'.TargetIdleDuration <= MaxOf(controller.MinIdleDuration, controller.MaxIdleDuration)
        /\ (controller.CurrentState # "Idle" /\ controller'.CurrentState = "Idle") => EntersIdle ]_vars

\* Idle has been entered from PatrolStanding, with the idle range configured the wrong way round.
C20_Witness ==
    /\ op.name \in {"TransitionToState", "SetBehaviorState"}
    /\ op.State = "Idle"
    /\ \E i \in DOMAIN calls : calls[i].f = "OnEnterState" /\ calls[i].new = "Idle"
    /\ \E i \in DOMAIN calls : calls[i].f = "OnExitState" /\ calls[i].old = "PatrolStanding"
    /\ controller.MinIdleDuration > controller.MaxIdleDuration
    /\ controller.CurrentIdleTime = 0
    /\ controller.TargetIdleDuration = controller.MinIdleDuration


(***************************************************************************)
(* Patrolling upright, in the controller of Source/ and in the one of the  *)
(* plugin: specification SpecStanding.                                     *)
(***************************************************************************)

\* The state after both BeginPlays and a transition to PatrolStanding, with or without a
\* navigation system.
InitStanding ==
    /\ world = OpenSpace
    /\ surface = Unused
    /\ calls = <<>>
    /\ \E v \in Revisions : op = [name |-> "-", DeltaTime |-> 0, State |-> None, Revision |-> v]
    /\ \E b \in BOOLEAN :
       \E w1 \in BeginPlayController(BeginPlayCharacter([CrawlStart EXCEPT !.n.bNavSystem = b])) :
          \E w2 \in TransitionToState(w1, "PatrolStanding") :
             /\ controller = w2.c
             /\ character = w2.m
             /\ actor = w2.a
             /\ nav = w2.n

StandingTick ==
    /\ op.Revision = "Source"
    /\ controller.CurrentState = "PatrolStanding"
    /\ \E DeltaTime \in DeltaTimes :
          \E w2 \in ExecutePatrolStandingBehavior(Bundle, DeltaTime) :
             Becomes(w2, [name |-> "Tick", DeltaTime |-> DeltaTime, State |-> None, Revision |-> op.Revision])

StandingTick_Plugin ==
    /\ op.Revision = "Plugin"
    /\ controller.CurrentState = "PatrolStanding"
    /\ \E DeltaTime \in DeltaTimes :
          \E w2 \in ExecutePatrolStandingBehavior_Plugin(Bundle, DeltaTime) :
             Becomes(w2, [name |-> "Tick", DeltaTime |-> DeltaTime, State |-> None, Revision |-> op.Revision])

\* The path following component between two ticks: a move ends, pauses or resumes.
StandingPathFollowing ==
    /\ nav.Status # "Idle"
    /\ \E s \in {"Idle", "Moving", "Paused"} :
          /\ s # nav.Status
          /\ Becomes([Bundle EXCEPT !.n.Status = s],
                     [name |-> "PathFollowing", DeltaTime |-> 0, State |-> None, Revision |-> op.Revision])

\* PatrolStanding is left and entered again.
StandingTransitionToState ==
    \E NewState \in States :
       /\ NewState # controller.CurrentState
       /\ \E w2 \in TransitionToState(Bundle, NewState) :
             Becomes(w2, [name |-> "TransitionToState", DeltaTime |-> 0, State |-> NewState,
                          Revision |-> op.Revision])

NextStanding ==
    \/ StandingTick
    \/ StandingTick_Plugin
    \/ StandingPathFollowing
    \/ StandingTransitionToState

SpecStanding == InitStanding /\ [][NextStanding]_vars

\* The log holds the answer v of DidMoveReachGoal.
Answered(log, v) == \E i \in DOMAIN log : log[i].f = "DidMoveReachGoal" /\ log[i].v = v

\* The log holds a query for a new destination.
RequestsDestination(log) == \E i \in DOMAIN log : log[i].f = "GetRandomReachablePointInRadius"

\* C18: in PatrolStanding, a tick in which the path following component answers that the move
\* reached its goal starts a pause of a duration in [MinStopDuration, MaxStopDuration], stops the
\* movement and requests no destination; and a tick of the pause that leaves the accumulated stop
\* time below that duration requests none either and keeps the pause.
C18_PauseAtGoal ==
    [][ /\ (op'.name = "Tick" /\ controller.CurrentState = "PatrolStanding" /\ Answered(calls', 1))
           => /\ controller'.bIsStoppedAtDestination
              /\ controller'.CurrentStopTime = 0
              /\ controller'.TargetStopDuration >= MinStopDuration
              /\ controller'.TargetStopDuration <= MaxStopDuration
              /\ nav'.Status = "Idle"
              /\ ~RequestsDestination(calls')
        /\ ( /\ op'.name = "Tick" /\ controller.CurrentState = "PatrolStanding"
             /\ controller.ControlledMonster
             /\ controller.bIsStoppedAtDestination
             /\ controller.CurrentStopTime + op'.DeltaTime < controller.TargetStopDuration )
           => /\ ~RequestsDestination(calls')
              /\ controller'.bIsStoppedAtDestination
              /\ controller'.CurrentStopTime = controller.CurrentStopTime + op'.DeltaTime
              /\ controller'.TargetStopDuration = controller.TargetStopDuration
              /\ nav' = nav
        /\ (op'.name = "Tick" /\ RequestsDestination(calls')) => ~controller'.bIsStoppedAtDestination ]_vars

\* The pause runs: a tick has brought the stop time above 0 and below the duration.
C18_Witness ==
    /\ op.name = "Tick"
    /\ controller.CurrentState = "PatrolStanding"
    /\ controller.bIsStoppedAtDestination
    /\ controller.CurrentStopTime > 0
    /\ controller.CurrentStopTime < controller.TargetStopDuration
    /\ nav.Status = "Idle"

\* The pause has just started in the controller of the plugin.
C18_PausedInPlugin ==
    /\ op.name = "Tick" /\ op.Revision = "Plugin"
    /\ controller.bIsStoppedAtDestination
    /\ Answered(calls, 1)


(***************************************************************************)
(* The surface component at the edge of a ledge: specification SpecEdge.   *)
(***************************************************************************)
\* A floor 10 UU beneath the body that ends 50 UU from the origin.
Ledge == [Distance |-> 2, Normal |-> UpVector, Reach |-> 10]
EdgeLevels ==
    { OpenSpace,
      [k \in {DownVector} |-> Floor],
      [k \in {DownVector} |-> Ledge],
      [k \in {DownVector, UpVector} |-> IF k = DownVector THEN Ledge ELSE [Distance |-> 30, Normal |-> DownVector]] }

InitEdge ==
    /\ world \in EdgeLevels
    /\ controller = Unused /\ character = Unused /\ nav = Unused
    /\ surface = [CachedOwner |-> FALSE, CurrentSurfaceNormal |-> UpVector, bIsOnSurface |-> FALSE]
    /\ actor = [Location |-> ZeroVector, Rotation |-> MakeFromXZ(VScale(ForwardVector, One), UpVector)]
    /\ calls = <<>>
    /\ op = [name |-> "-", TargetLocation |-> ZeroVector, DeltaTime |-> 0, ret |-> FALSE, ForwardHit |-> NoHit]

CallMoveTowardsSurfaceLocation_Edge ==
    /\ Len(calls) < MaxMoves
    /\ \A i \in 1..Len(calls) : calls[i] = "MoveTowardsSurfaceLocation_Edge"
    /\ InLevel(actor.Location)
    /\ \E TargetLocation \in TargetLocations, DeltaTime \in DeltaTimes :
          LET r == MoveTowardsSurfaceLocation_Edge(SurfBundle, TargetLocation, DeltaTime, PatrolCrawlingSpeed)
          IN  SurfBecomes(r.b, [name |-> "MoveTowardsSurfaceLocation_Edge", TargetLocation |-> TargetLocation,
                                DeltaTime |-> DeltaTime, ret |-> r.ret, ForwardHit |-> r.ForwardHit])

NextEdge ==
    \/ ComponentBeginPlay
    \/ TickComponent
    \/ CallMoveTowardsSurfaceLocation
    \/ CallMoveTowardsSurfaceLocation_Edge

SpecEdge == InitEdge /\ [][NextEdge]_vars

\* A call of MoveTowardsSurfaceLocation, beyond the acceptance radius, whose path trace met nothing.
PathIsOpen ==
    /\ op'.name \in MoveNames
    /\ surface.CachedOwner
    /\ RemainingSquared > AcceptanceRadius * AcceptanceRadius
    /\ ~op'.ForwardHit.bBlockingHit

\* What the move has to leave when the path is open: the body snapped to the surface sampled at
\* the intended position and attached, or else at the intended position and unattached.
OpenPathOutcome ==
    LET Sample == DetectSurface(surface, IntendedLocation)
    IN  /\ op'.ret
        /\ Sample.bFound
              => /\ actor'.Location = Sample.Location
                 /\ surface'.bIsOnSurface
                 /\ surface'.CurrentSurfaceNormal = Sample.Normal
        /\ ~Sample.bFound
              => /\ actor'.Location = IntendedLocation
                 /\ ~surface'.bIsOnSurface
                 /\ surface'.CurrentSurfaceNormal = surface.CurrentSurfaceNormal
                 /\ actor'.Rotation = actor.Rotation

\* C15: when the path ray of MoveTowardsSurfaceLocation finds no hit, the surface is sampled at the
\* intended next position; if one is found the body is snapped to it and marked attached, and if
\* not the body is moved by the raw step to the intended position, without a snap, and marked
\* unattached; the call returns true in both cases.
C15_OpenPathSampledAtIntended ==
    [][ PathIsOpen => OpenPathOutcome ]_vars

\* The same for the revision of SurfacePathfindingComponent.cpp alone.
C15_OpenPathSampledAtIntended_Source ==
    [][ (PathIsOpen /\ op'.name = "MoveTowardsSurfaceLocation") => OpenPathOutcome ]_vars

\* That revision has stepped off the ledge: the body is past its end and unattached.
C15_Witness_Source ==
    /\ op.name = "MoveTowardsSurfaceLocation"
    /\ op.ret
    /\ ~op.ForwardHit.bBlockingHit
    /\ ~surface.bIsOnSurface
    /\ DownVector \in DOMAIN world
    /\ Abs(actor.Location[1]) > 10


(***************************************************************************)
(* What Tick does by itself (specification Spec).                          *)
(***************************************************************************)
\* C33: under Tick only Idle is left: a Tick in PatrolStanding or in PatrolCrawling leaves the
\* state of the controller, and that of its character, as it was, and a Tick that changes the
\* state starts in Idle and ends in one of the two patrols.
C33_PatrolNeverLeftByTick ==
    [][ op'.name = "Tick"
        => /\ controller.CurrentState # "Idle"
              => /\ controller'.CurrentState = controller.CurrentState
                 /\ character'.CurrentBehaviorState = character.CurrentBehaviorState
           /\ controller'.CurrentState # controller.CurrentState
              => /\ controller.CurrentState = "Idle"
                 /\ controller'.CurrentState \in {"PatrolStanding", "PatrolCrawling"} ]_vars

\* A patrol has gone through a whole pause, with its ticks, and is a patrol still.
C33_Witness ==
    /\ op.name = "Tick"
    /\ controller.CurrentState = "PatrolStanding"
    /\ controller.ControlledMonster
    /\ ~controller.bIsStoppedAtDestination
    /\ controller.TargetStopDuration > 0

\* Idle has been left by a Tick.
C33_IdleLeftByTick ==
    /\ op.name = "Tick"
    /\ controller.CurrentState = "PatrolCrawling"
    /\ \E i \in DOMAIN calls : calls[i].f = "OnExitState" /\ calls[i].old = "Idle"

\* C34: TransitionToState(S) while the current state is S does nothing: no hook is called, and
\* the controller with its timers, flags and destination, the character, the body and the path
\* following are as before.
C34_SameStateIsNoOp ==
    [][ op'.name = "TransitionToState" /\ op'.State = controller.CurrentState
        => /\ controller' = controller
           /\ character' = character
           /\ actor' = actor
           /\ nav' = nav
           /\ calls' = <<>> ]_vars

\* An Idle-to-Idle request in the middle of an idle period has left the time of the period.
C34_Witness ==
    /\ op.name = "TransitionToState"
    /\ op.State = "Idle"
    /\ controller.CurrentState = "Idle"
    /\ controller.ControlledMonster
    /\ controller.CurrentIdleTime > 0

\* The same for both revisions of the controller (specification SpecSync).
C34_SameStateIsNoOp_Sync ==
    [][ op'.name = "TransitionToState" /\ op'.State = controller.CurrentState
        => controller' = controller /\ character' = character /\ calls' = <<>> ]_vars

C34_Witness_Plugin ==
    /\ op.Revision = "Plugin"
    /\ op.name = "TransitionToState"
    /\ op.State = controller.CurrentState
    /\ op.State = "PatrolStanding"


(***************************************************************************)
(* The controller without a monster (specification SpecBegin).             *)
(***************************************************************************)
\* C35: with no controlled monster a Tick does nothing, whatever the state: the controller with
\* its state, timers, flags and destination, the character, the body and the path following are
\* as before, and no callback is called.
C35_TickWithoutMonsterIsNoOp ==
    [][ op'.name = "Tick" /\ ~controller.ControlledMonster
        => /\ controller' = controller
           /\ character' = character
           /\ actor' = actor
           /\ nav' = nav
           /\ calls' = <<>> ]_vars

\* Ticks of two lengths have passed over a crawling controller without a monster.
C35_Witness ==
    /\ op.name = "Tick"
    /\ op.DeltaTime = MaxDeltaTime
    /\ controller.bBegunPlay
    /\ ~controller.ControlledMonster
    /\ controller.CurrentState = "PatrolCrawling"

C35_Witness_Idle ==
    /\ op.name = "Tick"
    /\ ~controller.ControlledMonster
    /\ controller.CurrentState = "Idle"
    /\ controller.CurrentIdleTime = 0


(***************************************************************************)
(* The calls between the character and its controller, one frame at a      *)
(* time (specification SpecCalls).  SetBehaviorState calls                 *)
(* TransitionToState, which calls SetBehaviorStateInternal; op.Stack holds *)
(* the frames of the calls that have not returned, the innermost last.     *)
(***************************************************************************)
MaxCallDepth == 4

Frame(f, NewState) == [f |-> f, NewState |-> NewState, pc |-> "test", OldState |-> None]

\* The objects with the log of the call that is running.
Running == [Bundle EXCEPT !.log = calls]
Top == op.Stack[Len(op.Stack)]
Returned == SubSeq(op.Stack, 1, Len(op.Stack) - 1)
At(pc) == Append(Returned, [Top EXCEPT !.pc = pc])

\* The controller and its character as constructed (revision of Source/), nothing called.
InitCalls ==
    /\ world = OpenSpace
    /\ surface = Unused
    /\ calls = <<>>
    /\ \E s \in States : controller = [CrawlStart.c EXCEPT !.CurrentState = s]
    /\ character = CrawlStart.m
    /\ actor = CrawlStart.a
    /\ nav = CrawlStart.n
    /\ op = [name |-> "-", DeltaTime |-> 0, State |-> None, Stack |-> <<>>, Start |-> Bundle]

CallsBeginPlay ==
    /\ op.Stack = <<>>
    /\ ~controller.bBegunPlay
    /\ \E w2 \in BeginPlayController(Bundle) :
          Becomes(w2, [name |-> "BeginPlay", DeltaTime |-> 0, State |-> None, Stack |-> <<>>, Start |-> Bundle])

\* A call from outside, made when no call is running.
CallsEnter ==
    /\ op.Stack = <<>>
    /\ \E f \in {"SetBehaviorState", "TransitionToState"}, NewState \in States :
          Becomes(Bundle, [name |-> f, DeltaTime |-> 0, State |-> NewState,
                           Stack |-> <<Frame(f, NewState)>>, Start |-> Bundle])

\* AMonsterCharacter::SetBehaviorState, from its test to its notification.
StepSetBehaviorState ==
    /\ op.Stack # <<>>
    /\ Top.f = "SetBehaviorState"
    /\ LET NewState == Top.NewState
       IN  CASE Top.pc = "test" ->
                  IF character.CurrentBehaviorState # NewState
                  THEN Becomes([Running EXCEPT !.m.CurrentBehaviorState = NewState,
                                               !.m.MaxWalkSpeed = GetMovementSpeedForState(NewState)],
                               [op EXCEPT !.Stack = Append(Returned,
                                   [Top EXCEPT !.pc = "sync", !.OldState = character.CurrentBehaviorState])])
                  ELSE Becomes(Running, [op EXCEPT !.Stack = Returned])
             [] Top.pc = "sync" ->
                  IF character.bPossessed /\ controller.CurrentState # NewState
                  THEN /\ Len(op.Stack) < MaxCallDepth
                       /\ Becomes(Running, [op EXCEPT !.Stack =
                                               Append(At("notify"), Frame("TransitionToState", NewState))])
                  ELSE Becomes(Running, [op EXCEPT !.Stack = At("notify")])
             [] Top.pc = "notify" ->
                  Becomes(Called(Running, "OnBehaviorStateChanged", Top.OldState, NewState),
                          [op EXCEPT !.Stack = Returned])

\* AMonsterAIController::TransitionToState, from its test to the enter hook.
StepTransitionToState ==
    /\ op.Stack # <<>>
    /\ Top.f = "TransitionToState"
    /\ LET NewState == Top.NewState
       IN  CASE Top.pc = "test" ->
                  IF controller.CurrentState # NewState
                  THEN Becomes([OnExitState(Running, controller.CurrentState) EXCEPT !.c.CurrentState = NewState],
                               [op EXCEPT !.Stack = At("character")])
                  ELSE Becomes(Running, [op EXCEPT !.Stack = Returned])
             [] Top.pc = "character" ->
                  IF controller.ControlledMonster
                  THEN /\ Len(op.Stack) < MaxCallDepth
                       /\ Becomes(Running, [op EXCEPT !.Stack =
                                               Append(At("enter"), Frame("SetBehaviorStateInternal", NewState))])
                  ELSE Becomes(Running, [op EXCEPT !.Stack = At("enter")])
             [] Top.pc = "enter" ->
                  \E w2 \in OnEnterState(Running, NewState) : Becomes(w2, [op EXCEPT !.Stack = Returned])

\* AMonsterCharacter::SetBehaviorStateInternal, which calls nothing back.
StepSetBehaviorStateInternal ==
    /\ op.Stack # <<>>
    /\ Top.f = "SetBehaviorStateInternal"
    /\ Becomes(SetBehaviorStateInternal(Running, Top.NewState), [op EXCEPT !.Stack = Returned])

NextCalls ==
    \/ CallsBeginPlay
    \/ CallsEnter
    \/ StepSetBehaviorState
    \/ StepTransitionToState
    \/ StepSetBehaviorStateInternal

SpecCalls == InitCalls /\ [][NextCalls]_vars

\* A function that has been called runs on: the game thread executes the frames one after another.
SpecCallsFair ==
    SpecCalls /\ WF_vars(StepSetBehaviorState \/ StepTransitionToState \/ StepSetBehaviorStateInternal)

\* The OnBehaviorStateChanged events of the call that is running or has just returned.
StateChangedEvents == SelectSeq(calls, LAMBDA e : e.f = "OnBehaviorStateChanged")

\* C36: the calls between SetBehaviorState and TransitionToState nest at most three deep and
\* every call returns; when it has returned, a character whose state has changed has had
\* OnBehaviorStateChanged(old, new) exactly once, a character whose state is as before has had
\* none, and a SetBehaviorState for the character's own state has called nothing at all.
C36_CallsReturnAndNotifyOnce ==
    /\ [](Len(op.Stack) <= 3)
    /\ (op.Stack # <<>>) ~> (op.Stack = <<>>)
    /\ [](Len(StateChangedEvents) <= 1)
    /\ []((op.Stack = <<>> /\ op.name \in {"SetBehaviorState", "TransitionToState"})
            => /\ IF character.CurrentBehaviorState # op.Start.m.CurrentBehaviorState
                  THEN /\ Len(StateChangedEvents) = 1
                       /\ StateChangedEvents[1].old = op.Start.m.CurrentBehaviorState
                       /\ StateChangedEvents[1].new = character.CurrentBehaviorState
                  ELSE StateChangedEvents = <<>>
               /\ (op.name = "SetBehaviorState" /\ op.State = op.Start.m.CurrentBehaviorState)
                     => calls = <<>> /\ Running = [op.Start EXCEPT !.log = <<>>])

\* SetBehaviorState has called TransitionToState, which has called SetBehaviorStateInternal for
\* a character already in the new state; all three have returned, with one event.
C36_Witness ==
    /\ op.Stack = <<>>
    /\ op.name = "SetBehaviorState"
    /\ op.Start.c.ControlledMonster
    /\ op.Start.c.CurrentState = "Idle"
    /\ controller.CurrentState = "PatrolCrawling"
    /\ character.CurrentBehaviorState = "PatrolCrawling"
    /\ Len(StateChangedEvents) = 1
    /\ \E i \in DOMAIN calls : calls[i].f = "OnEnterState"

\* The three frames at once.
C36_Witness_Nested ==
    /\ Len(op.Stack) = 3
    /\ op.Stack[1].f = "SetBehaviorState"
    /\ op.Stack[2].f = "TransitionToState"
    /\ op.Stack[3].f = "SetBehaviorStateInternal"

\* What the frames leave when the outermost call has returned is what the call does as a whole.
C36_FramesAsWhole ==
    (op.Stack = <<>> /\ op.name \in {"SetBehaviorState", "TransitionToState"})
       => Running \in (IF op.name = "SetBehaviorState"
                       THEN SetBehaviorState(op.Start, op.State)
                       ELSE TransitionToState(op.Start, op.State))


(***************************************************************************)
(* The component off its surface (specification SpecLost).  The owner is   *)
(* moved by the component and also by the controller, whose crawl sets the *)
(* location of the monster itself; so a component that has lost its        *)
(* surface can find itself over the ledge again.                           *)
(***************************************************************************)
LostLevels ==
    { [k \in {DownVector} |-> Floor],
      [k \in {DownVector} |-> Ledge],
      [k \in {DownVector, ForwardVector} |-> IF k = DownVector THEN Ledge ELSE WallAt(35)],
      [k \in {DownVector, UpVector} |-> IF k = DownVector THEN Ledge ELSE [Distance |-> 30, Normal |-> DownVector]] }

\* Where the controller puts the monster: over the ledge and off it.
OwnerLocations == {ZeroVector, <<5, 0, 0>>, <<20, 0, 0>>, <<0, -20, 0>>}

InitLost ==
    /\ world \in LostLevels
    /\ controller = Unused /\ character = Unused /\ nav = Unused
    /\ surface = [CachedOwner |-> FALSE, CurrentSurfaceNormal |-> UpVector, bIsOnSurface |-> FALSE]
    /\ actor = [Location |-> ZeroVector, Rotation |-> MakeFromXZ(VScale(ForwardVector, One), UpVector)]
    /\ calls = <<>>
    /\ op = [name |-> "-", TargetLocation |-> ZeroVector, DeltaTime |-> 0, ret |-> FALSE, ForwardHit |-> NoHit]

\* ControlledMonster->SetActorLocation(...)
OwnerMoved ==
    /\ surface.CachedOwner
    /\ \E Location \in OwnerLocations :
          /\ Location # actor.Location
          /\ SurfBecomes([SurfBundle EXCEPT !.a.Location = Location],
                         [name |-> "SetActorLocation", TargetLocation |-> Location, DeltaTime |-> 0,
                          ret |-> FALSE, ForwardHit |-> NoHit])

NextLost ==
    \/ ComponentBeginPlay
    \/ TickComponent
    \/ CallMoveTowardsSurfaceLocation
    \/ OwnerMoved

SpecLost == InitLost /\ [][NextLost]_vars

\* C37: a TickComponent of a component that is not on a surface leaves the attachment flag, the
\* tracked normal and the owner as they are; only MoveTowardsSurfaceLocation or BeginPlay puts
\* the component on a surface.
C37_TickNeverReattaches ==
    [][ /\ (op'.name = "TickComponent" /\ ~surface.bIsOnSurface)
           => surface' = surface /\ actor' = actor
        /\ (~surface.bIsOnSurface /\ surface'.bIsOnSurface)
           => op'.name \in MoveNames \cup {"BeginPlay"} ]_vars

\* Ticks have passed over a component that is off its surface although a surface is within its
\* detection range.
C37_Witness ==
    /\ op.name = "TickComponent"
    /\ surface.CachedOwner
    /\ ~surface.bIsOnSurface
    /\ DetectSurface(surface, actor.Location).bFound

\* A move has lost the surface and a later move has put the component back on it.
C37_Reattached ==
    /\ op.name \in MoveNames
    /\ op.ret
    /\ surface.bIsOnSurface
    /\ Len(calls) = MaxMoves
    /\ world = [k \in {DownVector} |-> Ledge]


(***************************************************************************)
(* The surface transition flag (specification SpecCrawl).                  *)
(***************************************************************************)
\* The tick has selected a destination.
DestinationSelected ==
    op'.name = "Tick" /\ op'.Planned /\ controller'.bIsMovingToCrawlDestination

\* C38: bIsTransitioningBetweenSurfaces becomes true only in the tick of an arrival at the crawl
\* destination, and becomes false only in a tick that selects a destination or in an entry into
\* PatrolCrawling; so it stays set through the pause and through the ticks whose planner fails,
\* and the destination then selected is one the planner finds with the flag set.
C38_TransitionFlagKept ==
    [][ /\ (~controller.bIsTransitioningBetweenSurfaces /\ controller'.bIsTransitioningBetweenSurfaces)
           => /\ op'.name = "Tick"
              /\ controller.bIsMovingToCrawlDestination
              /\ controller'.bIsStoppedAtCrawlDestination
        /\ (controller.bIsTransitioningBetweenSurfaces /\ ~controller'.bIsTransitioningBetweenSurfaces)
           => DestinationSelected \/ EntersPatrolCrawling
        /\ (controller.bIsTransitioningBetweenSurfaces /\ DestinationSelected)
           => /\ ~controller'.bIsTransitioningBetweenSurfaces
              /\ \E f \in FindCrawlableDestination(
                             [Bundle EXCEPT !.c.bIsTransitioningBetweenSurfaces = TRUE]) :
                    /\ f.bFound
                    /\ controller'.CrawlingDestination = f.Location
                    /\ controller'.TargetSurfaceNormal = f.Normal ]_vars

\* The pause is over, the planner has run and failed, and the flag is still set.
C38_Witness ==
    /\ op.name = "Tick"
    /\ op.Planned
    /\ controller.CurrentState = "PatrolCrawling"
    /\ ~controller.bIsMovingToCrawlDestination
    /\ ~controller.bIsStoppedAtCrawlDestination
    /\ controller.bIsTransitioningBetweenSurfaces

\* The flag is still set in the middle of the pause.
C38_SetInPause ==
    /\ op.name = "Tick"
    /\ controller.bIsStoppedAtCrawlDestination
    /\ controller.CurrentCrawlStopTime > 0
    /\ controller.bIsTransitioningBetweenSurfaces

\* A destination has been selected that the planner finds only with the flag set.
C38_SelectedWidened ==
    /\ op.name = "Tick"
    /\ op.Planned
    /\ controller.bIsMovingToCrawlDestination
    /\ \A f \in FindCrawlableDestination([Bundle EXCEPT !.c.bIsTransitioningBetweenSurfaces = FALSE]) :
          ~(f.bFound /\ f.Location = controller.CrawlingDestination)


(***************************************************************************)
(* The surface under the crawling character from one frame to the next:    *)
(* specification SpecNormals.  The body is carried over floors, slopes and *)
(* walls; each frame the trace of UpdateSurfaceAttachment meets one of     *)
(* them or nothing.  Normals are held at length One and frames are in      *)
(* tenths of a second.  Plugins/.../MonsterCharacter.cpp holds the         *)
(* function twice: at lines 113-211 and, in the second copy of the class,  *)
(* at lines 332-393 (revision "PluginB").                                  *)
(***************************************************************************)
\* A floor, a slope of 1 in 10 (5.7 degrees), a wall and a ceiling.
SurfaceNormals == {<<0, 0, 10>>, <<1, 0, 10>>, <<10, 0, 0>>, <<0, 0, -10>>}

\* A test against a threshold of 1: any normal but the stored one is a change.
SurfaceChanged_Exact(CurrentNormal, NewNormal) == CurrentNormal # NewNormal

\* DotProduct < SurfaceChangeThreshold (0.99), for normals held at length One.
SurfaceChanged_Frame(CurrentNormal, NewNormal) == 100 * Dot(CurrentNormal, NewNormal) < 99 * One * One

\* The branch of a hit, lines 137-194.
UpdateSurfaceAttachment_Over(ch, a, NewSurfaceNormal, Tenths) ==
    [ch |-> [ch EXCEPT !.bIsAttachedToSurface = TRUE, !.CurrentSurfaceNormal = NewSurfaceNormal],
     a |-> [a EXCEPT !.Rotation =
                RInterpTo(@, MakeFromXZ(ProjectedForwardOn(@.X, ScaleTo(NewSurfaceNormal, 1)), NewSurfaceNormal),
                          Tenths, CharacterAlignmentSpeed, 10)],
     OnSurfaceTransition |-> SurfaceChanged_Frame(ch.CurrentSurfaceNormal, NewSurfaceNormal)]

\* NewSurfaceNormal.Rotation() with the yaw of the current rotation: the forward axis has the
\* heading of the body and the elevation of the normal, the roll is 0.
RotationWithYaw(NewSurfaceNormal, CurrentRotation) ==
    LET Level == <<CurrentRotation.X[1], CurrentRotation.X[2], 0>>
        Heading == IF Level = ZeroVector THEN VScale(ForwardVector, One) ELSE GetSafeNormal(Level)
        Flat == ISqrt(NewSurfaceNormal[1] * NewSurfaceNormal[1] + NewSurfaceNormal[2] * NewSurfaceNormal[2])
        Rise == NewSurfaceNormal[3]
    IN  MakeFromXZ(<<TruncDiv(Heading[1] * Flat, One), TruncDiv(Heading[2] * Flat, One), Rise>>,
                   <<TruncDiv(-(Heading[1] * Rise), One), TruncDiv(-(Heading[2] * Rise), One), Flat>>)

\* The branch of a hit in revision "PluginB", lines 355-377.
UpdateSurfaceAttachment_OverB(ch, a, NewSurfaceNormal, Tenths) ==
    LET bChanged == SurfaceChanged_Frame(ch.CurrentSurfaceNormal, NewSurfaceNormal)
    IN  [ch |-> [ch EXCEPT !.bIsAttachedToSurface = TRUE,
                           !.CurrentSurfaceNormal = IF bChanged THEN NewSurfaceNormal ELSE @],
         a |-> [a EXCEPT !.Rotation =
                    RInterpTo(@, RotationWithYaw(NewSurfaceNormal, @), Tenths, CharacterAlignmentSpeed, 10)],
         OnSurfaceTransition |-> bChanged]

NoNormalOp == [name |-> "-", Tenths |-> 0, bHit |-> FALSE, Normal |-> ZeroVector,
               OnSurfaceTransition |-> FALSE, Ticks |-> 0, Revision |-> "Plugin"]

\* The character as constructed, crawling.
InitNormals ==
    /\ world = OpenSpace
    /\ controller = Unused /\ nav = Unused /\ surface = Unused
    /\ calls = <<>>
    /\ \E v \in {"Plugin", "PluginB"} : op = [NoNormalOp EXCEPT !.Revision = v]
    /\ character = [bIsAttachedToSurface |-> FALSE, CurrentSurfaceNormal |-> VScale(UpVector, One)]
    /\ actor = [Location |-> ZeroVector, Rotation |-> MakeFromXZ(VScale(ForwardVector, One), VScale(UpVector, One))]

NormalsBecome(r, o) ==
    /\ character' = r.ch
    /\ actor' = r.a
    /\ op' = [o EXCEPT !.name = "UpdateSurfaceAttachment", !.Ticks = op.Ticks + 1, !.Revision = op.Revision]
    /\ UNCHANGED <<world, controller, nav, surface, calls>>

\* A frame whose trace meets a surface.
NormalsHitTick ==
    /\ op.Revision = "Plugin"
    /\ op.Ticks < MaxAlignTicks
    /\ \E NewSurfaceNormal \in SurfaceNormals, Tenths \in FrameTenths :
          LET r == UpdateSurfaceAttachment_Over(character, actor, NewSurfaceNormal, Tenths)
          IN  NormalsBecome(r, [NoNormalOp EXCEPT !.Tenths = Tenths, !.bHit = TRUE, !.Normal = NewSurfaceNormal,
                                                  !.OnSurfaceTransition = r.OnSurfaceTransition])

NormalsHitTick_B ==
    /\ op.Revision = "PluginB"
    /\ op.Ticks < MaxAlignTicks
    /\ \E NewSurfaceNormal \in SurfaceNormals, Tenths \in FrameTenths :
          LET r == UpdateSurfaceAttachment_OverB(character, actor, NewSurfaceNormal, Tenths)
          IN  NormalsBecome(r, [NoNormalOp EXCEPT !.Tenths = Tenths, !.bHit = TRUE, !.Normal = NewSurfaceNormal,
                                                  !.OnSurfaceTransition = r.OnSurfaceTransition])

\* A frame whose trace meets nothing (the same code in both revisions).
NormalsMissTick ==
    /\ op.Ticks < MaxAlignTicks
    /\ \E Tenths \in FrameTenths :
          NormalsBecome(UpdateSurfaceAttachment_Detached(character, actor, Tenths),
                        [NoNormalOp EXCEPT !.Tenths = Tenths])

NextNormals ==
    \/ NormalsHitTick
    \/ NormalsHitTick_B
    \/ NormalsMissTick

SpecNormals == InitNormals /\ [][NextNormals]_vars

\* What a frame of UpdateSurfaceAttachment has to do: fire OnSurfaceTransition exactly when the
\* trace has hit and the dot product of the stored and the hit normal is below the threshold,
\* store the hit normal after a hit, and fire nothing in the second of two frames that hit the
\* same normal.
EventOnChange ==
    op'.name = "UpdateSurfaceAttachment"
       => /\ op'.OnSurfaceTransition
                <=> (op'.bHit /\ 100 * Dot(character.CurrentSurfaceNormal, op'.Normal) < 99 * One * One)
          /\ op'.bHit => character'.CurrentSurfaceNormal = op'.Normal
          /\ (op.name = "UpdateSurfaceAttachment" /\ op.bHit /\ op'.bHit /\ op'.Normal = op.Normal)
                => ~op'.OnSurfaceTransition

\* C39: every frame of UpdateSurfaceAttachment fires OnSurfaceTransition exactly when a surface
\* is hit and the dot product of the stored normal and the hit normal is below
\* SurfaceChangeThreshold; after a frame with a hit the stored normal is the hit normal; of two
\* consecutive frames that hit the same normal the second fires nothing.
C39_EventOnSurfaceChange == [][EventOnChange]_vars

\* The same for the function at lines 113-211 alone.
C39_EventOnSurfaceChange_Plugin == [][op.Revision = "Plugin" => EventOnChange]_vars

\* The body has come from the floor onto the wall, the event has fired, and the stored normal is
\* that of the wall.
C39_Witness_Plugin ==
    /\ op.Revision = "Plugin"
    /\ op.name = "UpdateSurfaceAttachment"
    /\ op.bHit
    /\ op.OnSurfaceTransition
    /\ op.Normal = <<10, 0, 0>>
    /\ character.CurrentSurfaceNormal = <<10, 0, 0>>
    /\ op.Ticks >= 2

\* The body has come from the floor onto the slope: no event, and the slope is the stored normal.
C39_OntoSlope ==
    /\ op.Revision = "Plugin"
    /\ op.bHit
    /\ ~op.OnSurfaceTransition
    /\ op.Normal = <<1, 0, 10>>
    /\ character.CurrentSurfaceNormal = <<1, 0, 10>>
    /\ op.Ticks = 1

\* In revision "PluginB" the slope has been hit and the stored normal is still that of the floor.
C39_StoredNormalStale ==
    /\ op.Revision = "PluginB"
    /\ op.bHit
    /\ op.Normal = <<1, 0, 10>>
    /\ character.CurrentSurfaceNormal = <<0, 0, 10>>

=============================================================================
